---- MODULE Spec2Model ----
(***************************************************************************)
(* Model of the streamduck core handle (streamduck-core/src/core/methods.rs *)
(* with the feature table of versions.rs): the per-device panel stack, the  *)
(* panels and their buttons, the device config, the redraw channel and      *)
(* what each CoreHandle operation returns, logs and emits; of the render    *)
(* worker (streamduck-core/src/threads/rendering.rs): its loop, its two     *)
(* caches and the command batches it sends; and of the named-pipe client    *)
(* (streamduck-client/src/windows.rs): requests, responses and events on    *)
(* one connection shared by threads. The CoreHandle operations are modelled *)
(* twice: as whole calls (what a call returns, logs and emits), and as the  *)
(* steps concurrent tasks take between lock requests.                       *)
(***************************************************************************)
EXTENDS Integers, Sequences, FiniteSets, TLC

VARIABLES
    panel_stack,     \* SDCore.current_stack: the panel stack, bottom first
    panels,          \* the buttons map of each panel object: key -> Option<button>
    device_config,   \* SDCore.device_config: brightness, layout, dirty_state, commit_time
    last             \* the most recent CoreHandle call: what was called, through which
                     \* handle, on which stack, and what it returned, logged, emitted
                     \* and sent to the render worker

VARIABLES
    hash_in,         \* the renderer components handed to hash_renderer and redraw
    hash_out         \* their hashes and the images composed for them

VARIABLES
    current_screen,  \* what get_current_screen gives the render worker
    files,           \* the paths load_image can load
    render_cache,    \* RendererState.render_cache: renderer hash -> image
    image_cache,     \* RendererState.image_cache: path hash -> image
    rx,              \* the messages waiting in the render worker's channel
    tx_dropped,      \* every Sender of the channel has been dropped
    is_closed,       \* SDCore::is_closed
    worker_pc,       \* where the render worker is in its loop
    sent             \* the batches the latest render pass handed to send_commands

VARIABLES
    connection,      \* who holds the write lock of WinClient.connection
    buffer_lock,     \* who holds the write lock of WinClient.event_buffer
    inbound,         \* frames the server has written and the client has not read
    outbound,        \* frames the client has written and the server has not read
    event_buffer,    \* WinClient.event_buffer
    client_pc,       \* where each client thread is in its call
    requester,       \* the requester id of each thread's send_packet call
    response,        \* what each thread's latest send_packet call returned
    delivered,       \* the events get_event calls have returned, in order
    packets_sent,    \* how many packets the client has written
    events_written   \* how many events the server has written

VARIABLES
    locks,           \* who holds each lock of the device, for reading and for writing
    stack_depth,     \* how many panels the stack holds
    has_button,      \* the panel has a button at the key
    button_value,    \* the array value of the button's component, if it has the component
    task_op,         \* the operation each task has called
    task_pc,         \* the steps each task has yet to take
    task_local,      \* each task's own variables
    task_ret,        \* what each task's call returned
    task_log         \* what each task did, with the locks it held then

core_vars == <<panel_stack, panels, device_config, last>>
task_vars ==
    <<locks, stack_depth, has_button, button_value, task_op, task_pc, task_local, task_ret,
      task_log>>
client_vars ==
    <<connection, buffer_lock, inbound, outbound, event_buffer, client_pc, requester,
      response, delivered, packets_sent, events_written>>
hash_vars == <<hash_in, hash_out>>
render_vars ==
    <<current_screen, files, render_cache, image_cache, rx, tx_dropped, is_closed, worker_pc, sent>>
vars == <<core_vars, hash_vars, render_vars, client_vars, task_vars>>

\* The threads that share one WinClient.
Threads == {"t1", "t2"}

\* ------------------------------------------------------------------ bounds
\* Longest panel stack the model explores (push_screen is guarded by it).
MaxStack == 2

\* ------------------------------------------------------------ input domains
\* Panel objects (ButtonPanel is a shared reference; "root" is the panel the
\* device is initialised with).
Panels == {"root", "menu"}
\* Key indices callers pass (u8).
Keys == {0}
\* Component names callers pass: "c1" is registered, "cx" is not.
ComponentNames == {"c1", "cx"}
\* Values a component may hold.
Values == {0, 1}
\* Brightness values callers pass (u8).
Brightnesses == {50, 200}

\* Option<T>: None is the empty set, Some(x) the singleton.
None == {}
Some(x) == {x}
IsSome(o) == o # {}
Unwrap(o) == CHOOSE x \in o : TRUE

\* ------------------------------------------------------------- versions.rs
COMPILER_VERSION == <<"compiler_version", "1.64">>
PLUGIN_API == <<"plugin_api", "0.2">>
SDMODULE_TRAIT == <<"sdmodule_trait", "0.2">>
CORE == <<"core", "0.2">>
CORE_METHODS == <<"core_methods", "0.2">>
CONFIG == <<"config", "0.2">>
MODULE_MANAGER == <<"module_manager", "0.2">>
CORE_EVENTS == <<"core_events", "0.2">>
GLOBAL_EVENTS == <<"global_events", "0.1">>
SOCKET_API == <<"socket_api", "0.2">>
RENDERING == <<"rendering", "0.2">>

SUPPORTED_FEATURES_NoCoreMethods ==
    << COMPILER_VERSION, PLUGIN_API, SDMODULE_TRAIT, CORE, CONFIG,
       MODULE_MANAGER, CORE_EVENTS, GLOBAL_EVENTS, RENDERING, SOCKET_API >>

SUPPORTED_FEATURES ==
    << COMPILER_VERSION, PLUGIN_API, SDMODULE_TRAIT, CORE, CORE_METHODS, CONFIG,
       MODULE_MANAGER, CORE_EVENTS, GLOBAL_EVENTS, RENDERING, SOCKET_API >>

\* Feature names the methods of CoreHandle pass to required_feature.
RequiredFeatures == {"core", "config", "module_manager", "socket_api", "core_methods"}

\* ------------------------------------------------------------ module registry
\* The registered modules, in the order get_module_list returns them, with the
\* used_features of their metadata.
ModuleList == <<"m1", "m2">>
ModuleNames == {ModuleList[i] : i \in 1..Len(ModuleList)}

used_features(m) ==
    IF m = "m1" THEN << PLUGIN_API >>
    ELSE << PLUGIN_API, CORE, CORE_METHODS, MODULE_MANAGER, CORE_EVENTS >>

\* component name -> owning module (the registry's component map).
component_map == [n \in {"c1"} |-> "m1"]

\* ---------------------------------------------------------------- buttons
\* The state of a button object (UniqueButton) is its components: a set of
\* <<component name, value>> pairs with at most one pair per name. The plain
\* form of a button (Button) is a function from component name to value.
Button_new == <<>>
component_names(button) == {p[1] : p \in button}
raw_component_names(raw) == DOMAIN raw

\* Snapshot of a button object to its plain form, and a new button object
\* made from a plain form.
button_to_raw(button) ==
    [n \in component_names(button) |-> (CHOOSE p \in button : p[1] = n)[2]]
make_button_unique(raw) == {<<n, raw[n]>> : n \in DOMAIN raw}

\* Plain buttons callers pass, and the button objects made from them.
RawButtons == {Button_new} \cup {[n \in {"c1"} |-> v] : v \in Values}
ButtonValues == {make_button_unique(raw) : raw \in RawButtons}

\* The effect of the owning module's callbacks on the button they are handed.
DefaultValue == 0
module_add_component(button, name) == button \cup {<<name, DefaultValue>>}
module_remove_component(button, name) == {p \in button : p[1] # name}
module_set_component_value(button, name, value) ==
    {p \in button : p[1] # name} \cup {<<name, value>>}
\* The callback of the owning module that an operation invokes on the button.
module_callback(callback, button, name, value) ==
    CASE callback = "add_component" -> module_add_component(button, name)
      [] callback = "remove_component" -> module_remove_component(button, name)
      [] callback = "set_component_value" -> module_set_component_value(button, name, value)
\* paste_component: the module copies the components it owns from the
\* reference into the new button.
module_paste_component(m, reference, new_button) ==
    LET owned == {n \in DOMAIN reference :
                    n \in DOMAIN component_map /\ component_map[n] = m}
    IN [n \in (DOMAIN new_button) \cup owned |->
          IF n \in owned THEN reference[n] ELSE new_button[n]]

\* Plain form of a panel: key -> plain button, for the keys that hold one.
panel_to_raw(buttons) ==
    [k \in {k \in DOMAIN buttons : IsSome(buttons[k])} |-> button_to_raw(Unwrap(buttons[k]))]
\* A JSON value handed to load_panels_from_value: well-formed or not, and the
\* plain panel it encodes when it is. deserialize_panel fails on a value that
\* is not well-formed and otherwise yields the buttons of a new panel.
RawPanels == {<<>>, [k \in {0} |-> [n \in {"c1"} |-> 1]]}
PanelValues == [well_formed : BOOLEAN, panel : RawPanels]
deserialize_ok(value) == value.well_formed
deserialize_panel(value) ==
    [k \in Keys |-> IF k \in DOMAIN value.panel
                     THEN Some(make_button_unique(value.panel[k])) ELSE None]

\* ------------------------------------------------------------------ events
SDCoreEvent(ty, key, panel, old_panel, button, old_button) ==
    [ty |-> ty, key |-> key, panel |-> panel, old_panel |-> old_panel,
     button |-> button, old_button |-> old_button]
ButtonAdded(key, panel, added_button) ==
    SDCoreEvent("ButtonAdded", Some(key), Some(panel), None, Some(added_button), None)
ButtonUpdated(key, panel, new_button, old_button) ==
    SDCoreEvent("ButtonUpdated", Some(key), Some(panel), None, Some(new_button), Some(old_button))
ButtonDeleted(key, panel, deleted_button) ==
    SDCoreEvent("ButtonDeleted", Some(key), Some(panel), None, Some(deleted_button), None)
ButtonDown(key) == SDCoreEvent("ButtonDown", Some(key), None, None, None, None)
ButtonUp(key) == SDCoreEvent("ButtonUp", Some(key), None, None, None, None)
ButtonAction(key, panel, pressed_button) ==
    SDCoreEvent("ButtonAction", Some(key), Some(panel), None, Some(pressed_button), None)
PanelPushed(new_panel) == SDCoreEvent("PanelPushed", None, Some(new_panel), None, None, None)
PanelPopped(popped_panel) == SDCoreEvent("PanelPopped", None, Some(popped_panel), None, None, None)
PanelReplaced(old_panel, new_panel) ==
    SDCoreEvent("PanelReplaced", None, Some(new_panel), old_panel, None, None)
StackReset(new_panel) == SDCoreEvent("StackReset", None, Some(new_panel), None, None, None)

\* ------------------------------------------------------------- feature gate
RECURSIVE check_feature_list_for_feature(_, _)
check_feature_list_for_feature(features, feature) ==
    IF features = <<>> THEN FALSE
    ELSE IF Head(features)[1] = feature THEN TRUE
    ELSE check_feature_list_for_feature(Tail(features), feature)

\* The log lines the call writes: one <<module name, feature>> per warning.
warn_for_feature_Inverted(module_name, features, feature) ==
    IF check_feature_list_for_feature(features, feature)
    THEN << <<module_name, feature>> >>
    ELSE <<>>

warn_for_feature(module_name, features, feature) ==
    IF ~check_feature_list_for_feature(features, feature)
    THEN << <<module_name, feature>> >>
    ELSE <<>>

\* ------------------------------------------------------------------ handles
features_to_vec(features) ==
    [i \in 1..Len(features) |-> <<features[i][1], features[i][2]>>]


wrap == [module_name |-> "-system-", module_features |-> features_to_vec(SUPPORTED_FEATURES)]

check_for_feature(h, feature) == check_feature_list_for_feature(h.module_features, feature)

required_feature(h, feature) == warn_for_feature(h.module_name, h.module_features, feature)

clone_for(h, module) == [module_name |-> module, module_features |-> used_features(module)]

\* The handles operations are invoked through: the system handle and the
\* handle of module m1.
Handles == {wrap, clone_for(wrap, "m1")}

\* ------------------------------------------------------------ core state
\* The state an operation works on is a record c:
\*   current_stack   the device's panel stack, bottom first
\*   panels          panel -> key -> Option<button>
\*   device_config   brightness, layout, dirty_state, commit_time
\*   redraw_tx       the messages the operation has sent to the render worker
\* An operation yields the state it leaves, what it returns, the warnings it
\* logs, the events it hands to send_core_event_to_modules, the commands it
\* sends to the device and the modules whose callback (paste_component,
\* add_component, set_component_value, remove_component) it invoked.
Result(c, ret, log, events) ==
    [core |-> c, ret |-> ret, log |-> log, events |-> events, commands |-> <<>>,
     invoked |-> <<>>, panicked |-> FALSE]
\* The operation panicked (an unwrap of nothing): it returns nothing.
Panic(c, log) ==
    [core |-> c, ret |-> None, log |-> log, events |-> <<>>, commands |-> <<>>,
     invoked |-> <<>>, panicked |-> TRUE]
Unit == "()"

\* RendererHandle::redraw sends Redraw on the render worker's channel;
\* SDCore::mark_for_redraw asks the render worker for a redraw through it.
RendererHandle_redraw(tx) == Append(tx, "Redraw")
mark_for_redraw(c) == [c EXCEPT !.redraw_tx = RendererHandle_redraw(@)]

\* ModuleManager::get_module_list
get_module_list == ModuleList

core(h, c) == Result(c, "core", required_feature(h, "core"), <<>>)
config(h, c) == Result(c, "config", required_feature(h, "config"), <<>>)
module_manager(h, c) == Result(c, "module_manager", required_feature(h, "module_manager"), <<>>)
socket_manager(h, c) == Result(c, "socket_manager", required_feature(h, "socket_api"), <<>>)

current_stack(h, c) == Result(c, c.current_stack, required_feature(h, "core"), <<>>)

\* The tasks send_core_event_to_modules spawns, one per module that is not the
\* sender, each with the event and a handle cloned for that module.
RECURSIVE spawn_event_tasks_NoSkip(_, _, _)
spawn_event_tasks_NoSkip(h, event, modules) ==
    IF modules = <<>> THEN <<>>
    ELSE << [module |-> Head(modules), task_core |-> clone_for(h, Head(modules)),
             task_event |-> event] >>
         \o spawn_event_tasks_NoSkip(h, event, Tail(modules))

RECURSIVE spawn_event_tasks(_, _, _)
spawn_event_tasks(h, event, modules) ==
    IF modules = <<>> THEN <<>>
    ELSE IF Head(modules) = h.module_name
    THEN spawn_event_tasks(h, event, Tail(modules))
    ELSE << [module |-> Head(modules), task_core |-> clone_for(h, Head(modules)),
             task_event |-> event] >>
         \o spawn_event_tasks(h, event, Tail(modules))

send_core_event_to_modules(h, event, modules) ==
    [event |-> event, modules |-> modules, spawned |-> spawn_event_tasks(h, event, modules)]

get_stack(h, c) ==
    LET stack == current_stack(h, c)
    IN Result(c, stack.ret, required_feature(h, "core_methods") \o stack.log, <<>>)

get_current_screen_Enforcing(h, c) ==
    LET stack == current_stack(h, c)
        log == required_feature(h, "core_methods") \o stack.log
    IN IF Len(stack.ret) > 0 /\ check_for_feature(h, "core_methods")
       THEN Result(c, Some(stack.ret[Len(stack.ret)]), log, <<>>)
       ELSE Result(c, None, log, <<>>)

get_current_screen(h, c) ==
    LET stack == current_stack(h, c)
        log == required_feature(h, "core_methods") \o stack.log
    IN IF Len(stack.ret) > 0
       THEN Result(c, Some(stack.ret[Len(stack.ret)]), log, <<>>)
       ELSE Result(c, None, log, <<>>)

get_button(h, key, c) ==
    LET screen == get_current_screen(h, c)
        log == required_feature(h, "core_methods") \o screen.log
    IN IF IsSome(screen.ret)
       THEN Result(c, c.panels[Unwrap(screen.ret)][key], log, <<>>)
       ELSE Result(c, None, log, <<>>)

\* ------------------------------------------------------------ button operations
set_button_NoRedraw(h, key, button, c) ==
    LET screen == get_current_screen(h, c)
        log == required_feature(h, "core_methods") \o screen.log
    IN IF IsSome(screen.ret)
       THEN LET panel == Unwrap(screen.ret)
                previous_button == c.panels[panel][key]
                c1 == [c EXCEPT !.panels[panel][key] = Some(button)]
                event == IF IsSome(previous_button)
                         THEN ButtonUpdated(key, panel, button, Unwrap(previous_button))
                         ELSE ButtonAdded(key, panel, button)
            IN Result(c1, TRUE, log \o module_manager(h, c).log,
                      << send_core_event_to_modules(h, event, get_module_list) >>)
       ELSE Result(c, FALSE, log, <<>>)

set_button_AlwaysAdded(h, key, button, c) ==
    LET screen == get_current_screen(h, c)
        log == required_feature(h, "core_methods") \o screen.log
    IN IF IsSome(screen.ret)
       THEN LET panel == Unwrap(screen.ret)
                c1 == [c EXCEPT !.panels[panel][key] = Some(button)]
            IN Result(mark_for_redraw(c1), TRUE, log \o module_manager(h, c).log,
                      << send_core_event_to_modules(h, ButtonAdded(key, panel, button),
                                                    get_module_list) >>)
       ELSE Result(c, FALSE, log, <<>>)

set_button(h, key, button, c) ==
    LET screen == get_current_screen(h, c)
        log == required_feature(h, "core_methods") \o screen.log
    IN IF IsSome(screen.ret)
       THEN LET panel == Unwrap(screen.ret)
                previous_button == c.panels[panel][key]
                c1 == [c EXCEPT !.panels[panel][key] = Some(button)]
                event == IF IsSome(previous_button)
                         THEN ButtonUpdated(key, panel, button, Unwrap(previous_button))
                         ELSE ButtonAdded(key, panel, button)
            IN Result(mark_for_redraw(c1), TRUE, log \o module_manager(h, c).log,
                      << send_core_event_to_modules(h, event, get_module_list) >>)
       ELSE Result(c, FALSE, log, <<>>)

clear_button_RedrawsOnMiss(h, key, c) ==
    LET screen == get_current_screen(h, c)
        log == required_feature(h, "core_methods") \o screen.log
    IN IF IsSome(screen.ret) /\ IsSome(c.panels[Unwrap(screen.ret)][key])
       THEN LET panel == Unwrap(screen.ret)
                button == Unwrap(c.panels[panel][key])
                c1 == [c EXCEPT !.panels[panel][key] = None]
            IN Result(mark_for_redraw(c1), TRUE, log \o module_manager(h, c).log,
                      << send_core_event_to_modules(h, ButtonDeleted(key, panel, button),
                                                    get_module_list) >>)
       ELSE Result(mark_for_redraw(c), FALSE, log, <<>>)

clear_button(h, key, c) ==
    LET screen == get_current_screen(h, c)
        log == required_feature(h, "core_methods") \o screen.log
    IN IF IsSome(screen.ret) /\ IsSome(c.panels[Unwrap(screen.ret)][key])
       THEN LET panel == Unwrap(screen.ret)
                button == Unwrap(c.panels[panel][key])
                c1 == [c EXCEPT !.panels[panel][key] = None]
            IN Result(mark_for_redraw(c1), TRUE, log \o module_manager(h, c).log,
                      << send_core_event_to_modules(h, ButtonDeleted(key, panel, button),
                                                    get_module_list) >>)
       ELSE Result(c, FALSE, log, <<>>)

\* add_component, set_component_value and remove_component share their shape:
\* the button at key must exist, must (not) have the component, the component
\* must be registered; then the owning module's callback edits the button and
\* ButtonUpdated carries the snapshot taken before and the button after.
edit_component(h, key, component_name, must_have, callback, value, c) ==
    LET log0 == required_feature(h, "core_methods") \o module_manager(h, c).log
        screen == get_current_screen(h, c)
        log == log0 \o screen.log
    IN IF /\ IsSome(screen.ret)
          /\ IsSome(c.panels[Unwrap(screen.ret)][key])
          /\ (component_name \in component_names(Unwrap(c.panels[Unwrap(screen.ret)][key])))
                 = must_have
          /\ component_name \in DOMAIN component_map
       THEN LET panel == Unwrap(screen.ret)
                button == Unwrap(c.panels[panel][key])
                previous == make_button_unique(button_to_raw(button))
                edited == module_callback(callback, button, component_name, value)
                c1 == [c EXCEPT !.panels[panel][key] = Some(edited)]
            IN [Result(mark_for_redraw(c1), TRUE, log \o module_manager(h, c).log,
                       << send_core_event_to_modules(
                              h, ButtonUpdated(key, panel, edited, previous),
                              get_module_list) >>)
                  EXCEPT !.invoked = << component_map[component_name] >>]
       ELSE Result(c, FALSE, log, <<>>)

add_component_Unchecked(h, key, component_name, c) ==
    LET added == edit_component(h, key, component_name, FALSE, "add_component", DefaultValue, c)
    IN IF added.ret = TRUE THEN added
       ELSE edit_component(h, key, component_name, TRUE, "add_component", DefaultValue, c)

add_component(h, key, component_name, c) ==
    edit_component(h, key, component_name, FALSE, "add_component", DefaultValue, c)

set_component_value(h, key, component_name, value, c) ==
    edit_component(h, key, component_name, TRUE, "set_component_value", value, c)

remove_component(h, key, component_name, c) ==
    edit_component(h, key, component_name, TRUE, "remove_component", DefaultValue, c)

\* ModuleManager::get_modules_for_declared_components: the modules that own
\* one of the names, in module-list order.
get_modules_for_declared_components(names) ==
    SelectSeq(ModuleList,
              LAMBDA m : \E n \in names : n \in DOMAIN component_map /\ component_map[n] = m)

RECURSIVE paste_components(_, _, _)
paste_components(modules, reference_button, new_button) ==
    IF modules = <<>> THEN new_button
    ELSE paste_components(Tail(modules), reference_button,
                          module_paste_component(Head(modules), reference_button, new_button))

paste_button(h, key, reference_button, c) ==
    LET responsible_modules ==
            get_modules_for_declared_components(raw_component_names(reference_button))
        new_button == paste_components(responsible_modules, reference_button, Button_new)
        set == set_button(h, key, make_button_unique(new_button), c)
    IN [set EXCEPT !.log = module_manager(h, c).log \o @,
                   !.invoked = responsible_modules]

\* ------------------------------------------------------------- stack operations
push_screen_AtBottom(h, screen, c) ==
    LET stack == current_stack(h, c)
        c1 == [c EXCEPT !.current_stack = <<screen>> \o stack.ret]
    IN Result(mark_for_redraw(c1), Unit,
              required_feature(h, "core_methods") \o stack.log \o module_manager(h, c).log,
              << send_core_event_to_modules(h, PanelPushed(screen), get_module_list) >>)

push_screen(h, screen, c) ==
    LET stack == current_stack(h, c)
        c1 == [c EXCEPT !.current_stack = Append(stack.ret, screen)]
    IN Result(mark_for_redraw(c1), Unit,
              required_feature(h, "core_methods") \o stack.log \o module_manager(h, c).log,
              << send_core_event_to_modules(h, PanelPushed(screen), get_module_list) >>)

pop_screen(h, c) ==
    LET stack == current_stack(h, c)
        log == required_feature(h, "core_methods") \o stack.log
        old_panel == IF Len(stack.ret) > 0 THEN Some(stack.ret[Len(stack.ret)]) ELSE None
        c1 == [c EXCEPT !.current_stack =
                   IF Len(stack.ret) > 0 THEN SubSeq(stack.ret, 1, Len(stack.ret) - 1)
                   ELSE stack.ret]
    IN IF IsSome(old_panel)
       THEN Result(mark_for_redraw(c1), Unit, log \o module_manager(h, c).log,
                   << send_core_event_to_modules(h, PanelPopped(Unwrap(old_panel)),
                                                 get_module_list) >>)
       ELSE Result(mark_for_redraw(c1), Unit, log, <<>>)

get_root_screen(h, c) ==
    LET stack == current_stack(h, c)
        log == required_feature(h, "core_methods") \o stack.log
    IN IF Len(stack.ret) > 0 THEN Result(c, stack.ret[1], log, <<>>) ELSE Panic(c, log)

save_panels_to_value_OfTop(h, c) ==
    LET stack == current_stack(h, c)
        log == required_feature(h, "core_methods") \o stack.log
    IN IF Len(stack.ret) > 0
       THEN Result(c, Some(panel_to_raw(c.panels[stack.ret[Len(stack.ret)]])), log, <<>>)
       ELSE Result(c, None, log, <<>>)

\* The serialized root panel; None stands for the empty JSON object.
save_panels_to_value(h, c) ==
    LET stack == current_stack(h, c)
        log == required_feature(h, "core_methods") \o stack.log
    IN IF Len(stack.ret) > 0
       THEN Result(c, Some(panel_to_raw(c.panels[stack.ret[1]])), log, <<>>)
       ELSE Result(c, None, log, <<>>)

reset_stack(h, panel, c) ==
    LET stack == current_stack(h, c)
        c1 == [c EXCEPT !.current_stack = <<panel>>]
    IN Result(mark_for_redraw(c1), Unit,
              required_feature(h, "core_methods") \o stack.log \o module_manager(h, c).log,
              << send_core_event_to_modules(h, StackReset(panel), get_module_list) >>)

load_panels_from_value_ClearsFirst(h, panels_value, new_panel, c) ==
    LET log == required_feature(h, "core_methods")
        stack == current_stack(h, c)
    IN IF deserialize_ok(panels_value)
       THEN LET c1 == [c EXCEPT !.panels[new_panel] = deserialize_panel(panels_value),
                                !.current_stack = <<new_panel>>]
            IN Result(mark_for_redraw(c1), "Ok",
                      log \o stack.log \o module_manager(h, c).log,
                      << send_core_event_to_modules(h, StackReset(new_panel),
                                                    get_module_list) >>)
       ELSE Result([c EXCEPT !.current_stack = <<>>], "Err", log \o stack.log, <<>>)

\* new_panel is the panel object deserialize_panel creates.
load_panels_from_value(h, panels_value, new_panel, c) ==
    LET log == required_feature(h, "core_methods")
    IN IF deserialize_ok(panels_value)
       THEN LET stack == current_stack(h, c)
                c1 == [c EXCEPT !.panels[new_panel] = deserialize_panel(panels_value),
                                !.current_stack = <<new_panel>>]
            IN Result(mark_for_redraw(c1), "Ok",
                      log \o stack.log \o module_manager(h, c).log,
                      << send_core_event_to_modules(h, StackReset(new_panel),
                                                    get_module_list) >>)
       ELSE Result(c, "Err", log, <<>>)

replace_screen_WithoutPop(h, screen, c) ==
    LET stack == current_stack(h, c)
        old_panel == IF Len(stack.ret) > 0 THEN Some(stack.ret[Len(stack.ret)]) ELSE None
        c1 == [c EXCEPT !.current_stack = Append(stack.ret, screen)]
    IN Result(mark_for_redraw(c1), Unit,
              required_feature(h, "core_methods") \o stack.log \o module_manager(h, c).log,
              << send_core_event_to_modules(h, PanelReplaced(old_panel, screen),
                                            get_module_list) >>)

replace_screen(h, screen, c) ==
    LET stack == current_stack(h, c)
        old_panel == IF Len(stack.ret) > 0 THEN Some(stack.ret[Len(stack.ret)]) ELSE None
        popped == IF Len(stack.ret) > 0 THEN SubSeq(stack.ret, 1, Len(stack.ret) - 1)
                  ELSE stack.ret
        c1 == [c EXCEPT !.current_stack = Append(popped, screen)]
    IN Result(mark_for_redraw(c1), Unit,
              required_feature(h, "core_methods") \o stack.log \o module_manager(h, c).log,
              << send_core_event_to_modules(h, PanelReplaced(old_panel, screen),
                                            get_module_list) >>)

\* ------------------------------------------------------------- key events
button_down(h, key, c) ==
    Result(c, Unit, required_feature(h, "core_methods") \o module_manager(h, c).log,
           << send_core_event_to_modules(h, ButtonDown(key), get_module_list) >>)

\* ModuleManager::get_modules_for_components: the modules that own one of the
\* names, in module-list order.
get_modules_for_components(names) ==
    SelectSeq(ModuleList,
              LAMBDA m : \E n \in names : n \in DOMAIN component_map /\ component_map[n] = m)

button_action_ToAll(h, key, c) ==
    LET screen == get_current_screen(h, c)
        log == required_feature(h, "core_methods") \o screen.log
    IN IF IsSome(screen.ret) /\ IsSome(c.panels[Unwrap(screen.ret)][key])
       THEN LET panel == Unwrap(screen.ret)
                button == Unwrap(c.panels[panel][key])
            IN Result(mark_for_redraw(c), Unit, log \o module_manager(h, c).log,
                      << send_core_event_to_modules(
                             h, ButtonAction(key, panel, button), get_module_list) >>)
       ELSE Result(c, Unit, log, <<>>)

button_action(h, key, c) ==
    LET screen == get_current_screen(h, c)
        log == required_feature(h, "core_methods") \o screen.log
    IN IF IsSome(screen.ret) /\ IsSome(c.panels[Unwrap(screen.ret)][key])
       THEN LET panel == Unwrap(screen.ret)
                button == Unwrap(c.panels[panel][key])
            IN Result(mark_for_redraw(c), Unit, log \o module_manager(h, c).log,
                      << send_core_event_to_modules(
                             h, ButtonAction(key, panel, button),
                             get_modules_for_components(component_names(button))) >>)
       ELSE Result(c, Unit, log, <<>>)

button_up(h, key, c) ==
    LET action == button_action(h, key, c)
    IN [action EXCEPT
          !.log = required_feature(h, "core_methods") \o module_manager(h, c).log \o @,
          !.events = << send_core_event_to_modules(h, ButtonUp(key), get_module_list) >> \o @]

\* ------------------------------------------------------------- device config
set_brightness(h, brightness, c) ==
    [Result([c EXCEPT !.device_config.brightness = brightness], Unit,
            required_feature(h, "core_methods"), <<>>)
       EXCEPT !.commands = << <<"SetBrightness", brightness>> >>]

commit_changes_NoDirty(h, c) ==
    LET root == get_root_screen(h, c)
        log == required_feature(h, "core_methods") \o root.log
    IN IF root.panicked THEN Panic(c, log)
       ELSE Result([c EXCEPT !.device_config.layout = panel_to_raw(c.panels[root.ret]),
                             !.device_config.commit_time = Some("now")],
                   Unit, log, <<>>)

commit_changes(h, c) ==
    LET root == get_root_screen(h, c)
        log == required_feature(h, "core_methods") \o root.log
    IN IF root.panicked THEN Panic(c, log)
       ELSE Result([c EXCEPT !.device_config.layout = panel_to_raw(c.panels[root.ret]),
                             !.device_config.dirty_state = TRUE,
                             !.device_config.commit_time = Some("now")],
                   Unit, log, <<>>)

\* ------------------------------------------------------- concurrent tasks
\* CoreHandle operations as the steps they take between awaits, run by tasks
\* that share one device: its stack mutex, the lock of the panel every stack
\* entry refers to, the lock of the button at the key, the component map and
\* the device config. The button's component is an array value.
Tasks == {"task1", "task2"}
Locks == {"device_config", "stack", "panel", "button", "component_map"}

\* Steps: taking a lock (lock().await, read().await, write().await), dropping
\* its guard, a piece of work, a test that leaves for other steps when it
\* fails, and the return.
Lock(l, mode) == [do |-> "lock", lock |-> l, mode |-> mode]
Unlock(l) == [do |-> "unlock", lock |-> l]
Do(what) == [do |-> what]
Callback(name, value) == [do |-> "callback", name |-> name, value |-> value]
Unless(test, steps) == [do |-> "unless", test |-> test, else |-> steps]
Return(value) == [do |-> "return", value |-> value]

\* get_current_screen: the stack guard lives until the function returns.
get_current_screen_steps == << Lock("stack", "write"), Do("stack.last"), Unlock("stack") >>

\* get_stack: the caller is given the panels the stack holds at that moment.
get_stack_steps ==
    << Lock("stack", "write"), Do("stack.iter"), Unlock("stack"), Return("stack") >>

\* get_button: the read guard of the panel is dropped at the return.
get_button_steps ==
    get_current_screen_steps \o
    << Unless("screen", << Return("None") >>),
       Lock("panel", "read"),
       Unless("button", << Unlock("panel"), Return("None") >>),
       Unlock("panel"), Return("Some") >>

\* set_button
set_button_steps ==
    get_current_screen_steps \o
    << Unless("screen", << Return("false") >>),
       Lock("panel", "write"), Do("buttons.insert"), Unlock("panel"),
       Do("send_core_event_to_modules"), Do("mark_for_redraw"), Return("true") >>

\* clear_button: on an empty slot the panel guard is dropped at the return.
clear_button_steps ==
    get_current_screen_steps \o
    << Unless("screen", << Return("false") >>),
       Lock("panel", "write"),
       Unless("button", << Unlock("panel"), Return("false") >>),
       Do("buttons.remove"), Unlock("panel"),
       Do("send_core_event_to_modules"), Do("mark_for_redraw"), Return("true") >>

\* add_component, set_component_value and remove_component: the snapshot for
\* old_button is taken through button_to_raw before the button's write lock
\* is requested; value is the argument of set_component_value, None standing
\* for the changes the task has computed itself.
component_steps(callback, must_have, value) ==
    get_current_screen_steps \o
    << Unless("screen", << Return("false") >>),
       Lock("panel", "read"),
       Unless("button", << Unlock("panel"), Return("false") >>),
       Lock("button", "read"), Do("button_to_raw"), Unlock("button"),
       Lock("button", "write"), Unlock("panel"),
       Unless(IF must_have THEN "has_component" ELSE "lacks_component",
              << Unlock("button"), Return("false") >>),
       Lock("component_map", "read"),
       Callback(callback, value),
       Unlock("button"), Unlock("component_map"),
       Do("send_core_event_to_modules"), Do("mark_for_redraw"), Return("true") >>

\* get_component_values, followed by what its caller does next.
get_component_values_steps(rest) ==
    get_current_screen_steps \o
    << Unless("screen", rest),
       Lock("panel", "read"),
       Unless("button", << Unlock("panel") >> \o rest),
       Lock("button", "write"), Unlock("panel"),
       Unless("has_component", << Unlock("button") >> \o rest),
       Lock("component_map", "read"),
       Callback("component_values", None),
       Unlock("component_map"), Unlock("button") >> \o rest

element_steps_Unchecked(path, function, arg) ==
    get_component_values_steps(
        << Unless("values", << Return("false") >>),
           [do |-> "change_from_path", path |-> path, function |-> function, arg |-> arg],
           Unless("changes", << Return("false") >>) >>
        \o component_steps("set_component_value", TRUE, None))

\* add_element_component_value, remove_element_component_value and
\* set_component_value_by_path: read the values, edit them by the path, write
\* the changes back through set_component_value.
element_steps(path, function, arg) ==
    get_component_values_steps(
        << Unless("values", << Return("false") >>),
           [do |-> "change_from_path", path |-> path, function |-> function, arg |-> arg],
           Unless("success", << Return("false") >>),
           Unless("changes", << Return("false") >>) >>
        \o component_steps("set_component_value", TRUE, None))

push_screen_steps ==
    << Lock("stack", "write"), Do("stack.push"), Unlock("stack"),
       Do("send_core_event_to_modules"), Do("mark_for_redraw"), Return("()") >>

pop_screen_steps ==
    << Lock("stack", "write"), Do("stack.pop"), Unlock("stack"),
       Unless("popped", << Do("mark_for_redraw"), Return("()") >>),
       Do("send_core_event_to_modules"), Do("mark_for_redraw"), Return("()") >>

reset_stack_steps_Unlocked ==
    << Lock("stack", "write"), Do("stack.clear"), Unlock("stack"),
       Lock("stack", "write"), Do("stack.push"), Unlock("stack"),
       Do("send_core_event_to_modules"), Do("mark_for_redraw"), Return("()") >>

reset_stack_steps ==
    << Lock("stack", "write"), Do("stack.clear"), Do("stack.push"), Unlock("stack"),
       Do("send_core_event_to_modules"), Do("mark_for_redraw"), Return("()") >>

load_panels_from_value_steps(ok) ==
    IF ok
    THEN << Lock("stack", "write"), Do("stack.clear"), Do("stack.push"), Unlock("stack"),
            Do("send_core_event_to_modules"), Do("mark_for_redraw"), Return("Ok") >>
    ELSE << Return("Err") >>

\* replace_screen: the stack guard is not dropped before the function ends.
replace_screen_steps ==
    << Lock("stack", "write"), Do("stack.pop"), Do("stack.push"),
       Do("send_core_event_to_modules"), Do("mark_for_redraw"),
       Unlock("stack"), Return("()") >>

\* button_action: the read guard of the button is a temporary of the
\* statement that sends the event.
button_action_steps ==
    get_current_screen_steps \o
    << Unless("screen", << Return("()") >>),
       Lock("panel", "read"),
       Unless("button", << Unlock("panel"), Return("()") >>),
       Unlock("panel"),
       Lock("button", "read"), Do("send_core_event_to_modules"), Unlock("button"),
       Do("mark_for_redraw"), Return("()") >>

set_brightness_steps ==
    << Do("send_commands"), Lock("device_config", "write"), Do("brightness"),
       Unlock("device_config"), Return("()") >>

commit_changes_steps_LayoutFirst ==
    << Lock("stack", "write"),
       Unless("root", << Unlock("stack"), Return("panic") >>),
       Unlock("stack"),
       Lock("panel", "read"), Lock("button", "read"),
       Lock("device_config", "write"),
       Unlock("button"), Unlock("panel"),
       Do("layout"), Unlock("device_config"), Return("()") >>

\* commit_changes: get_root_screen, then panel_to_raw under the write lock of
\* the device config; panel_to_raw reads the panel and its buttons.
commit_changes_steps ==
    << Lock("stack", "write"),
       Unless("root", << Unlock("stack"), Return("panic") >>),
       Unlock("stack"),
       Lock("device_config", "write"),
       Lock("panel", "read"), Lock("button", "read"), Unlock("button"), Unlock("panel"),
       Do("layout"), Unlock("device_config"), Return("()") >>

\* The calls a task makes: the operation, and for the element and path
\* operations the path and the index (and value) handed to the edit.
TaskOps ==
    [op : {"get_stack", "get_current_screen", "get_button",
           "set_button", "clear_button", "add_component", "remove_component",
           "push_screen", "pop_screen", "reset_stack", "replace_screen",
           "button_action", "set_brightness", "commit_changes"},
     path : {""}, arg : {<<>>}]
    \cup [op : {"set_component_value"}, path : {""}, arg : {<<1>>}]
    \cup [op : {"load_panels_from_value"}, path : {"well-formed", "malformed"}, arg : {<<>>}]
    \cup [op : {"add_element_component_value"}, path : {"arr", "nope"}, arg : {<<>>}]
    \cup [op : {"remove_element_component_value"}, path : {"arr"}, arg : {<<0>>, <<1>>}]
    \cup [op : {"set_component_value_by_path"}, path : {"arr"}, arg : {<<0, 1>>}]

Steps(o) ==
    CASE o.op = "get_stack" -> get_stack_steps
      [] o.op = "get_current_screen" ->
             get_current_screen_steps
                 \o << Unless("screen", << Return("None") >>), Return("Some") >>
      [] o.op = "get_button" -> get_button_steps
      [] o.op = "set_button" -> set_button_steps
      [] o.op = "clear_button" -> clear_button_steps
      [] o.op = "add_component" -> component_steps("add_component", FALSE, None)
      [] o.op = "set_component_value" ->
             component_steps("set_component_value", TRUE, Some(<< o.arg >>))
      [] o.op = "remove_component" -> component_steps("remove_component", TRUE, None)
      [] o.op = "add_element_component_value" -> element_steps(o.path, "add_array", o.arg)
      [] o.op = "remove_element_component_value" ->
             element_steps(o.path, "remove_array", o.arg)
      [] o.op = "set_component_value_by_path" -> element_steps(o.path, "set_value", o.arg)
      [] o.op = "push_screen" -> push_screen_steps
      [] o.op = "pop_screen" -> pop_screen_steps
      [] o.op = "reset_stack" -> reset_stack_steps
      [] o.op = "load_panels_from_value" ->
             load_panels_from_value_steps(o.path = "well-formed")
      [] o.op = "replace_screen" -> replace_screen_steps
      [] o.op = "button_action" -> button_action_steps
      [] o.op = "set_brightness" -> set_brightness_steps
      [] o.op = "commit_changes" -> commit_changes_steps

\* The path edit: the tree after the edit and whether the edit succeeded. The
\* component has one value, the array at path "arr"; a path that resolves to
\* nothing gives no tree, a failed edit the tree as it was.
RemoveAt(array, i) == SubSeq(array, 1, i) \o SubSeq(array, i + 2, Len(array))
change_from_path(path, values, function, arg) ==
    IF path # "arr" THEN [changes |-> <<>>, success |-> FALSE]
    ELSE CASE function = "add_array" ->
                [changes |-> << Append(values, 0) >>, success |-> TRUE]
           [] function = "remove_array" ->
                IF arg[1] < Len(values)
                THEN [changes |-> << RemoveAt(values, arg[1]) >>, success |-> TRUE]
                ELSE [changes |-> << values >>, success |-> FALSE]
           [] function = "set_value" ->
                IF arg[1] < Len(values)
                THEN [changes |-> << [values EXCEPT ![arg[1] + 1] = arg[2]] >>,
                      success |-> TRUE]
                ELSE [changes |-> << values >>, success |-> FALSE]

\* The locks a task holds.
Held(t) == {l \in Locks : t \in locks[l].readers \/ locks[l].writer = Some(t)}
\* A lock can be taken for writing when nobody holds it, for reading when
\* nobody holds it for writing.
CanLock(l, mode) ==
    /\ locks[l].writer = None
    /\ mode = "write" => locks[l].readers = {}

\* What a task's tests read.
Test(test, t) ==
    CASE test = "screen" -> task_local[t].screen
      [] test = "root" -> stack_depth > 0
      [] test = "popped" -> task_local[t].popped
      [] test = "button" -> has_button
      [] test = "has_component" -> IsSome(button_value)
      [] test = "lacks_component" -> ~IsSome(button_value)
      [] test = "values" -> IsSome(task_local[t].values)
      [] test = "success" -> task_local[t].success
      [] test = "changes" -> task_local[t].changes # <<>>

\* The device and the task's own variables after a piece of work.
Perform(step, t) ==
    LET now == [stack_depth |-> stack_depth, has_button |-> has_button,
                button_value |-> button_value, local |-> task_local[t]]
    IN CASE step.do = "stack.iter" -> [now EXCEPT !.local.seen = Some(stack_depth)]
         [] step.do = "stack.last" -> [now EXCEPT !.local.screen = stack_depth > 0]
         [] step.do = "stack.push" -> [now EXCEPT !.stack_depth = @ + 1]
         [] step.do = "stack.pop" ->
                [now EXCEPT !.stack_depth = IF @ > 0 THEN @ - 1 ELSE 0,
                            !.local.popped = stack_depth > 0]
         [] step.do = "stack.clear" -> [now EXCEPT !.stack_depth = 0]
         [] step.do = "buttons.insert" -> [now EXCEPT !.has_button = TRUE]
         [] step.do = "buttons.remove" -> [now EXCEPT !.has_button = FALSE]
         [] step.do = "button_to_raw" -> [now EXCEPT !.local.previous = button_value]
         [] step.do = "change_from_path" ->
                LET edited == change_from_path(step.path, Unwrap(task_local[t].values),
                                               step.function, step.arg)
                IN [now EXCEPT !.local.changes = edited.changes,
                               !.local.success = edited.success]
         [] step.do = "callback" ->
                (CASE step.name = "add_component" -> [now EXCEPT !.button_value = Some(<<>>)]
                   [] step.name = "remove_component" -> [now EXCEPT !.button_value = None]
                   [] step.name = "set_component_value" ->
                          [now EXCEPT !.button_value =
                               IF IsSome(step.value) THEN Some(Unwrap(step.value)[1])
                               ELSE Some(task_local[t].changes[1])]
                   [] step.name = "component_values" ->
                          [now EXCEPT !.local.values = button_value])
         [] OTHER -> now

\* The device is initialised with its root panel, whose button at the key
\* has the component with a one-element array; no task has begun.
InitTasks ==
    /\ locks = [l \in Locks |-> [writer |-> None, readers |-> {}]]
    /\ stack_depth = 1
    /\ has_button = TRUE
    /\ button_value = Some(<<0>>)
    /\ task_op = [t \in Tasks |-> None]
    /\ task_pc = [t \in Tasks |-> <<>>]
    /\ task_local = [t \in Tasks |->
                       [screen |-> FALSE, popped |-> FALSE, values |-> None,
                        changes |-> <<>>, success |-> FALSE, previous |-> None,
                        seen |-> None]]
    /\ task_ret = [t \in Tasks |-> "none"]
    /\ task_log = [t \in Tasks |-> <<>>]

\* A task calls an operation.
TaskBegin(t) ==
    /\ task_op[t] = None
    /\ \E o \in TaskOps :
          /\ task_op' = [task_op EXCEPT ![t] = Some(o)]
          /\ task_pc' = [task_pc EXCEPT ![t] = Steps(o)]
    /\ UNCHANGED <<core_vars, hash_vars, render_vars, client_vars, locks, stack_depth,
                   has_button, button_value, task_local, task_ret, task_log>>

\* A task takes its next step; a lock that is not free makes it wait. The
\* log keeps what the task did to locks, modules and the render worker, with
\* the locks it held at that moment.
TaskStep(t) ==
    /\ task_pc[t] # <<>>
    /\ LET step == Head(task_pc[t])
           rest == Tail(task_pc[t])
           after == Perform(step, t)
           entry == [what |-> IF step.do = "callback" THEN step.name ELSE step.do,
                     lock |-> IF step.do \in {"lock", "unlock"} THEN step.lock ELSE "",
                     held |-> Held(t)]
       IN /\ step.do = "lock" => CanLock(step.lock, step.mode)
          /\ locks' =
               CASE step.do = "lock" /\ step.mode = "write" ->
                        [locks EXCEPT ![step.lock].writer = Some(t)]
                 [] step.do = "lock" /\ step.mode = "read" ->
                        [locks EXCEPT ![step.lock].readers = @ \cup {t}]
                 [] step.do = "unlock" ->
                        [locks EXCEPT ![step.lock] =
                             [writer |-> IF @.writer = Some(t) THEN None ELSE @.writer,
                              readers |-> @.readers \ {t}]]
                 [] OTHER -> locks
          /\ task_pc' = [task_pc EXCEPT ![t] =
                           CASE step.do = "unless" ->
                                    IF Test(step.test, t) THEN rest ELSE step.else
                             [] step.do = "return" -> <<>>
                             [] OTHER -> rest]
          /\ task_ret' = IF step.do = "return" THEN [task_ret EXCEPT ![t] = step.value]
                         ELSE task_ret
          /\ task_log' = IF step.do \in {"unless", "return", "unlock"} THEN task_log
                         ELSE [task_log EXCEPT ![t] = Append(@, entry)]
          /\ stack_depth' = after.stack_depth
          /\ has_button' = after.has_button
          /\ button_value' = after.button_value
          /\ task_local' = [task_local EXCEPT ![t] = after.local]
    /\ UNCHANGED <<core_vars, hash_vars, render_vars, client_vars, task_op>>

NextTasks == \E t \in Tasks : TaskBegin(t) \/ TaskStep(t)

\* ------------------------------------------------------------------ the system
Core ==
    [current_stack |-> panel_stack, panels |-> panels,
     device_config |-> device_config, redraw_tx |-> <<>>]

\* A freshly initialised device whose panels' button maps are followed over
\* the key indices keys.
InitCoreOver(keys) ==
    /\ panel_stack = <<"root">>
    /\ panels = [p \in Panels |-> [k \in keys |-> None]]
    /\ device_config = [brightness |-> 50, layout |-> panel_to_raw([k \in Keys |-> None]),
                        dirty_state |-> FALSE, commit_time |-> None]
    /\ last = [op |-> "init", handle |-> wrap, args |-> <<>>, pre_stack |-> <<>>,
               ret |-> Unit, log |-> <<>>, events |-> <<>>, commands |-> <<>>,
               invoked |-> <<>>, panicked |-> FALSE, redraws |-> <<>>]

InitCore == InitCoreOver(Keys)

\* No renderer component has been hashed.
InitHashIdle ==
    /\ hash_in = <<>>
    /\ hash_out = None

\* No render worker has been spawned.
InitRenderIdle ==
    /\ current_screen = None
    /\ files = {}
    /\ render_cache = <<>>
    /\ image_cache = <<>>
    /\ rx = <<>>
    /\ tx_dropped = FALSE
    /\ is_closed = FALSE
    /\ worker_pc = "unspawned"
    /\ sent = <<>>

\* WinClient::new: the connection is open, nothing has been written or read,
\* no thread is in a call.
InitClient ==
    /\ connection = None
    /\ buffer_lock = None
    /\ inbound = <<>>
    /\ outbound = <<>>
    /\ event_buffer = <<>>
    /\ client_pc = [t \in Threads |-> "idle"]
    /\ requester = [t \in Threads |-> None]
    /\ response = [t \in Threads |-> None]
    /\ delivered = <<>>
    /\ packets_sent = 0
    /\ events_written = 0

Init == InitCore /\ InitHashIdle /\ InitRenderIdle /\ InitClient /\ InitTasks

\* A call of operation op through handle h with result r takes the system to
\* r.core and is recorded in last.
Call(op, h, args, r) ==
    /\ panel_stack' = r.core.current_stack
    /\ panels' = r.core.panels
    /\ device_config' = r.core.device_config
    /\ last' = [op |-> op, handle |-> h, args |-> args, pre_stack |-> panel_stack,
                ret |-> r.ret, log |-> r.log, events |-> r.events,
                commands |-> r.commands, invoked |-> r.invoked, panicked |-> r.panicked,
                redraws |-> r.core.redraw_tx]
    /\ UNCHANGED <<hash_vars, render_vars, client_vars, task_vars>>

\* The key indices callers pass to set_button, clear_button and paste_button:
\* those the button maps are followed over.
KeyArgs == DOMAIN panels["root"]

Accessor ==
    \E h \in Handles :
        \/ Call("core", h, <<>>, core(h, Core))
        \/ Call("config", h, <<>>, config(h, Core))
        \/ Call("module_manager", h, <<>>, module_manager(h, Core))
        \/ Call("socket_manager", h, <<>>, socket_manager(h, Core))

GetStack == \E h \in Handles : Call("get_stack", h, <<>>, get_stack(h, Core))

GetCurrentScreen ==
    \E h \in Handles : Call("get_current_screen", h, <<>>, get_current_screen(h, Core))

GetButton ==
    \E h \in Handles, key \in Keys : Call("get_button", h, <<key>>, get_button(h, key, Core))

SetButton ==
    \E h \in Handles, key \in KeyArgs, button \in ButtonValues :
        Call("set_button", h, <<key, button>>, set_button(h, key, button, Core))

ClearButton ==
    \E h \in Handles, key \in KeyArgs :
        Call("clear_button", h, <<key>>, clear_button(h, key, Core))

AddComponent ==
    \E h \in Handles, key \in Keys, name \in ComponentNames :
        Call("add_component", h, <<key, name>>, add_component(h, key, name, Core))

SetComponentValue ==
    \E h \in Handles, key \in Keys, name \in ComponentNames, value \in Values :
        Call("set_component_value", h, <<key, name, value>>,
             set_component_value(h, key, name, value, Core))

RemoveComponent ==
    \E h \in Handles, key \in Keys, name \in ComponentNames :
        Call("remove_component", h, <<key, name>>, remove_component(h, key, name, Core))

PasteButton ==
    \E h \in Handles, key \in KeyArgs, reference \in RawButtons :
        Call("paste_button", h, <<key, reference>>, paste_button(h, key, reference, Core))

PushScreen ==
    \E h \in Handles, screen \in Panels :
        /\ Len(panel_stack) < MaxStack
        /\ Call("push_screen", h, <<screen>>, push_screen(h, screen, Core))

PopScreen == \E h \in Handles : Call("pop_screen", h, <<>>, pop_screen(h, Core))

ReplaceScreen ==
    \E h \in Handles, screen \in Panels :
        Call("replace_screen", h, <<screen>>, replace_screen(h, screen, Core))

ResetStack ==
    \E h \in Handles, panel \in Panels :
        Call("reset_stack", h, <<panel>>, reset_stack(h, panel, Core))

LoadPanelsFromValue ==
    \E h \in Handles, value \in PanelValues, new_panel \in Panels :
        Call("load_panels_from_value", h, <<value>>,
             load_panels_from_value(h, value, new_panel, Core))

GetRootScreen == \E h \in Handles : Call("get_root_screen", h, <<>>, get_root_screen(h, Core))

SavePanelsToValue ==
    \E h \in Handles : Call("save_panels_to_value", h, <<>>, save_panels_to_value(h, Core))

ButtonDownAct ==
    \E h \in Handles, key \in Keys : Call("button_down", h, <<key>>, button_down(h, key, Core))

ButtonUpAct ==
    \E h \in Handles, key \in Keys : Call("button_up", h, <<key>>, button_up(h, key, Core))

ButtonActionAct ==
    \E h \in Handles, key \in Keys :
        Call("button_action", h, <<key>>, button_action(h, key, Core))

SetBrightness ==
    \E h \in Handles, brightness \in Brightnesses :
        Call("set_brightness", h, <<brightness>>, set_brightness(h, brightness, Core))

CommitChanges == \E h \in Handles : Call("commit_changes", h, <<>>, commit_changes(h, Core))

Next ==
    \/ Accessor \/ GetStack \/ GetCurrentScreen \/ GetButton
    \/ SetButton \/ ClearButton \/ AddComponent \/ SetComponentValue \/ RemoveComponent
    \/ PasteButton \/ PushScreen \/ PopScreen \/ ReplaceScreen \/ ResetStack
    \/ LoadPanelsFromValue \/ GetRootScreen \/ SavePanelsToValue
    \/ ButtonDownAct \/ ButtonUpAct \/ ButtonActionAct

Spec == Init /\ [][Next]_vars

\* The operations on the current panel together with the device config.
NextConfig ==
    \/ SetButton \/ ClearButton \/ AddComponent \/ SetComponentValue \/ RemoveComponent
    \/ PushScreen \/ PopScreen \/ CommitChanges

SpecConfig == Init /\ [][NextConfig]_vars

\* ------------------------------------------------------------ render worker
\* SDCore.key_count: the number of keys of the device.
key_count == 2
\* Most Redraw messages the model lets wait in the channel.
MaxMarks == 2

\* Image files a background may name, and fonts of the font collection.
Paths == {"a.png"}
Fonts == {"SourceHanSans-Bold.ttf"}
White == <<255, 255, 255, 255>>
Black == <<0, 0, 0, 255>>

\* ButtonBackground, as far as the worker is given it here: the two
\* gradients are built like Solid, from two colors.
Solid(color) ==
    [kind |-> "Solid", colors |-> <<color>>, path |-> "", disable_caching |-> FALSE]
Image(path, disable_caching) ==
    [kind |-> "Image", colors |-> <<>>, path |-> path, disable_caching |-> disable_caching]

\* ButtonTextShadow and ButtonText
ButtonTextShadow(offset, color) == [offset |-> offset, color |-> color]
ButtonText(text, font, scale, alignment, padding, offset, color, shadow) ==
    [text |-> text, font |-> font, scale |-> scale, alignment |-> alignment,
     padding |-> padding, offset |-> offset, color |-> color, shadow |-> shadow]
\* RendererComponent
RendererComponent(background, text, to_cache) ==
    [background |-> background, text |-> text, to_cache |-> to_cache]

\* The derived Hash of ButtonBackground and of ButtonTextShadow feeds every
\* field; DefaultHasher is taken to separate different inputs.
hash_ButtonBackground(b) == <<b.kind, b.colors, b.path, b.disable_caching>>
\* impl Hash for ButtonText: text, font, alignment, padding, color, shadow.
hash_ButtonText(t) == <<t.text, t.font, t.alignment, t.padding, t.color, t.shadow>>
hash_renderer(renderer) ==
    <<hash_ButtonBackground(renderer.background),
      [i \in 1..Len(renderer.text) |-> hash_ButtonText(renderer.text[i])],
      renderer.to_cache>>
hash_path(path) == <<"path", path>>

\* Images: the background they were started from and the text drawn on it.
image_from_solid(color) == [background |-> <<"solid", color>>, overlay |-> <<>>]
image_from_horiz_gradient(start, end) ==
    [background |-> <<"horiz", start, end>>, overlay |-> <<>>]
image_from_vert_gradient(start, end) ==
    [background |-> <<"vert", start, end>>, overlay |-> <<>>]
load_image(path, fs) ==
    IF path \in fs THEN Some([background |-> <<"file", path>>, overlay |-> <<>>]) ELSE None
\* The missing-texture bitmap the worker builds before its loop.
missing == [background |-> <<"missing">>, overlay |-> <<>>]
get_font_from_collection(font) == IF font \in Fonts THEN Some(font) ELSE None
render_aligned_text_on_image(image, font, text, scale, align, padding, offset, color) ==
    [image EXCEPT !.overlay =
        Append(@, <<font, text, scale, align, padding, offset, color, None>>)]
render_aligned_shadowed_text_on_image(image, font, text, scale, align, padding, offset, color, shadow) ==
    [image EXCEPT !.overlay =
        Append(@, <<font, text, scale, align, padding, offset, color, Some(shadow)>>)]

\* HashMap::insert
cache_insert(cache, k, v) ==
    [x \in (DOMAIN cache) \cup {k} |-> IF x = k THEN v ELSE cache[x]]

\* The background of redraw: the image, whether the load failed, and the
\* image cache afterwards.
background_image(background, ic, fs) ==
    CASE background.kind = "Solid" ->
           [image |-> image_from_solid(background.colors[1]), no_image |-> FALSE,
            image_cache |-> ic]
      [] background.kind = "HorizontalGradient" ->
           [image |-> image_from_horiz_gradient(background.colors[1], background.colors[2]),
            no_image |-> FALSE, image_cache |-> ic]
      [] background.kind = "VerticalGradient" ->
           [image |-> image_from_vert_gradient(background.colors[1], background.colors[2]),
            no_image |-> FALSE, image_cache |-> ic]
      [] background.kind = "Image" ->
           LET image_hash == hash_path(background.path)
               disable_caching == background.disable_caching
           IN IF image_hash \in DOMAIN ic /\ ~disable_caching
              THEN [image |-> ic[image_hash], no_image |-> FALSE, image_cache |-> ic]
              ELSE LET loaded == load_image(background.path, fs)
                       no_image == ~IsSome(loaded)
                       image == IF IsSome(loaded) THEN Unwrap(loaded) ELSE missing
                   IN [image |-> image, no_image |-> no_image,
                       image_cache |-> IF ~disable_caching /\ ~no_image
                                       THEN cache_insert(ic, image_hash, image)
                                       ELSE ic]

\* The text loop of redraw.
RECURSIVE draw_text(_, _)
draw_text(image, text) ==
    IF text = <<>> THEN image
    ELSE LET button_text == Head(text)
             font == get_font_from_collection(button_text.font)
             drawn ==
                 IF ~IsSome(font) THEN image
                 ELSE IF IsSome(button_text.shadow)
                 THEN render_aligned_shadowed_text_on_image(
                          image, Unwrap(font), button_text.text, button_text.scale,
                          button_text.alignment, button_text.padding, button_text.offset,
                          button_text.color, Unwrap(button_text.shadow))
                 ELSE render_aligned_text_on_image(
                          image, Unwrap(font), button_text.text, button_text.scale,
                          button_text.alignment, button_text.padding, button_text.offset,
                          button_text.color)
         IN draw_text(drawn, Tail(text))

\* The image redraw composes for a renderer that misses the render cache.
compose(renderer, ic, fs) ==
    LET bg == background_image(renderer.background, ic, fs)
    IN [image |-> draw_text(bg.image, renderer.text), no_image |-> bg.no_image,
        image_cache |-> bg.image_cache]

render_button_CachingMissing(renderer, rc, ic, fs) ==
    LET renderer_hash == hash_renderer(renderer)
    IN IF renderer_hash \in DOMAIN rc /\ renderer.to_cache
       THEN [image |-> rc[renderer_hash], render_cache |-> rc, image_cache |-> ic]
       ELSE LET composed == compose(renderer, ic, fs)
            IN [image |-> composed.image,
                render_cache |-> IF renderer.to_cache
                                 THEN cache_insert(rc, renderer_hash, composed.image)
                                 ELSE rc,
                image_cache |-> composed.image_cache]

render_button_CachesAll(renderer, rc, ic, fs) ==
    LET renderer_hash == hash_renderer(renderer)
    IN IF renderer_hash \in DOMAIN rc
       THEN [image |-> rc[renderer_hash], render_cache |-> rc, image_cache |-> ic]
       ELSE LET composed == compose(renderer, ic, fs)
            IN [image |-> composed.image,
                render_cache |-> IF ~composed.no_image
                                 THEN cache_insert(rc, renderer_hash, composed.image)
                                 ELSE rc,
                image_cache |-> composed.image_cache]

\* The image of one button in redraw, with the two caches afterwards.
render_button(renderer, rc, ic, fs) ==
    LET renderer_hash == hash_renderer(renderer)
    IN IF renderer_hash \in DOMAIN rc /\ renderer.to_cache
       THEN [image |-> rc[renderer_hash], render_cache |-> rc, image_cache |-> ic]
       ELSE LET composed == compose(renderer, ic, fs)
            IN [image |-> composed.image,
                render_cache |-> IF renderer.to_cache /\ ~composed.no_image
                                 THEN cache_insert(rc, renderer_hash, composed.image)
                                 ELSE rc,
                image_cache |-> composed.image_cache]

\* StreamDeckCommand
SetButtonImage(i, image) == [command |-> "SetButtonImage", key |-> i, image |-> Some(image)]
ClearButtonImage(i) == [command |-> "ClearButtonImage", key |-> i, image |-> None]

\* A button as the render worker sees it: it carries a renderer component
\* that parses, or it does not.
RenderButton(renderer) == [renderer |-> renderer]
parse_unique_button_to_component(button) == button.renderer

\* The key loop of redraw from key i on.
RECURSIVE redraw_keys(_, _, _, _, _, _)
redraw_keys(i, scr, rc, ic, fs, commands) ==
    IF i >= key_count
    THEN [commands |-> commands, render_cache |-> rc, image_cache |-> ic]
    ELSE IF /\ IsSome(scr)
            /\ IsSome(Unwrap(scr)[i])
            /\ IsSome(parse_unique_button_to_component(Unwrap(Unwrap(scr)[i])))
         THEN LET renderer == Unwrap(parse_unique_button_to_component(Unwrap(Unwrap(scr)[i])))
                  rendered == render_button(renderer, rc, ic, fs)
              IN redraw_keys(i + 1, scr, rendered.render_cache, rendered.image_cache, fs,
                             Append(commands, SetButtonImage(i, rendered.image)))
         ELSE redraw_keys(i + 1, scr, rc, ic, fs, Append(commands, ClearButtonImage(i)))

redraw_SendPerKey(scr, rc, ic, fs) ==
    LET pass == redraw_keys(0, scr, rc, ic, fs, <<>>)
    IN [sends |-> [i \in 1..Len(pass.commands) |-> <<pass.commands[i]>>],
        render_cache |-> pass.render_cache, image_cache |-> pass.image_cache]

\* One render pass: the batches handed to send_commands and the caches after.
redraw(scr, rc, ic, fs) ==
    LET pass == redraw_keys(0, scr, rc, ic, fs, <<>>)
    IN [sends |-> << pass.commands >>,
        render_cache |-> pass.render_cache, image_cache |-> pass.image_cache]

\* The renderer components of the buttons the worker is given: a solid
\* background, and an image background under every choice of disable_caching
\* and to_cache.
SlotRenderers ==
    {RendererComponent(Solid(White), <<>>, TRUE)}
        \cup {RendererComponent(Image(path, disable_caching), <<>>, to_cache) :
                path \in Paths, disable_caching \in BOOLEAN, to_cache \in BOOLEAN}
\* A key of a panel: no button, a button without a renderer component that
\* parses, or a button with one.
ButtonSlots ==
    {None, Some(RenderButton(None))}
        \cup {Some(RenderButton(Some(renderer))) : renderer \in SlotRenderers}
\* What get_current_screen gives: no panel, or the buttons of the top panel.
Screens == {None} \cup {Some(buttons) : buttons \in [0..(key_count - 1) -> ButtonSlots]}

\* spawn_rendering_thread: the worker starts at the top of its loop with
\* empty caches, and one Redraw is sent to it.
InitRender ==
    /\ InitCore
    /\ InitHashIdle
    /\ InitClient
    /\ InitTasks
    /\ current_screen \in Screens
    /\ files \in SUBSET Paths
    /\ render_cache = <<>>
    /\ image_cache = <<>>
    /\ rx = RendererHandle_redraw(<<>>)
    /\ tx_dropped = FALSE
    /\ is_closed = FALSE
    /\ worker_pc = "top"
    /\ sent = <<>>

\* RendererHandle::redraw, as called by mark_for_redraw.
MarkForRedraw ==
    /\ ~tx_dropped
    /\ Len(rx) < MaxMarks
    /\ rx' = RendererHandle_redraw(rx)
    /\ UNCHANGED <<core_vars, hash_vars, client_vars, task_vars, current_screen, files, render_cache, image_cache,
                   tx_dropped, is_closed, worker_pc, sent>>

\* The last RendererHandle is dropped.
DropSender ==
    /\ ~tx_dropped
    /\ tx_dropped' = TRUE
    /\ UNCHANGED <<core_vars, hash_vars, client_vars, task_vars, current_screen, files, render_cache, image_cache,
                   rx, is_closed, worker_pc, sent>>

\* The daemon shuts down.
Close ==
    /\ ~is_closed
    /\ is_closed' = TRUE
    /\ UNCHANGED <<core_vars, hash_vars, client_vars, task_vars, current_screen, files, render_cache, image_cache,
                   rx, tx_dropped, worker_pc, sent>>

\* An image file appears or disappears.
FileChange ==
    /\ \E path \in Paths :
          files' = IF path \in files THEN files \ {path} ELSE files \cup {path}
    /\ UNCHANGED <<core_vars, hash_vars, client_vars, task_vars, current_screen, render_cache, image_cache,
                   rx, tx_dropped, is_closed, worker_pc, sent>>

\* The top of the worker's loop: leave when the core is closed.
WorkerLoopTop ==
    /\ worker_pc = "top"
    /\ worker_pc' = IF is_closed THEN "done" ELSE "recv"
    /\ UNCHANGED <<core_vars, hash_vars, client_vars, task_vars, current_screen, files, render_cache, image_cache,
                   rx, tx_dropped, is_closed, sent>>

\* rx.recv(): blocks while the channel is empty and a sender lives; a Redraw
\* is answered by a render pass; a disconnected empty channel ends the loop.
WorkerRecv ==
    /\ worker_pc = "recv"
    /\ \/ /\ rx # <<>>
          /\ rx' = Tail(rx)
          /\ worker_pc' = "top"
          /\ IF Head(rx) = "Redraw"
             THEN LET pass == redraw(current_screen, render_cache, image_cache, files)
                  IN /\ sent' = pass.sends
                     /\ render_cache' = pass.render_cache
                     /\ image_cache' = pass.image_cache
             ELSE UNCHANGED <<sent, render_cache, image_cache>>
       \/ /\ rx = <<>>
          /\ tx_dropped
          /\ worker_pc' = "done"
          /\ UNCHANGED <<rx, sent, render_cache, image_cache>>
    /\ UNCHANGED <<core_vars, hash_vars, client_vars, task_vars, current_screen, files, tx_dropped, is_closed>>

NextRender ==
    \/ MarkForRedraw \/ DropSender \/ Close \/ FileChange
    \/ WorkerLoopTop \/ WorkerRecv

SpecRender == InitRender /\ [][NextRender]_vars

\* The worker is a thread of its own: it takes the step it can take.
SpecRenderFair ==
    SpecRender /\ WF_vars(WorkerLoopTop) /\ WF_vars(WorkerRecv)

\* ------------------------------------------------------- hashing renderers
\* The texts of the hashed renderers: two strings, two scales, two offsets,
\* with and without a shadow.
ButtonTexts ==
    {ButtonText(text, "SourceHanSans-Bold.ttf", scale, "Center", 0, offset, White, shadow) :
        text \in {"a", "b"}, scale \in {<<20, 20>>, <<30, 30>>},
        offset \in {<<0, 0>>, <<0, 8>>},
        shadow \in {None, Some(ButtonTextShadow(<<2, 2>>, Black))}}
HashedRenderers ==
    {RendererComponent(background, text, to_cache) :
        background \in {Solid(White), Image("a.png", FALSE)},
        text \in {<<>>} \cup {<<t>> : t \in ButtonTexts},
        to_cache \in BOOLEAN}

InitHash ==
    /\ InitCore
    /\ InitRenderIdle
    /\ InitClient
    /\ InitTasks
    /\ hash_in \in HashedRenderers \X HashedRenderers
    /\ hash_out = None

\* Both components are hashed, and composed as a render pass composes them
\* on a miss of its caches, all files being there.
HashAndCompose ==
    /\ hash_out = None
    /\ hash_out' = Some([hashes |-> <<hash_renderer(hash_in[1]), hash_renderer(hash_in[2])>>,
                         images |-> <<compose(hash_in[1], <<>>, Paths).image,
                                      compose(hash_in[2], <<>>, Paths).image>>])
    /\ UNCHANGED <<core_vars, render_vars, client_vars, task_vars, hash_in>>

NextHash == HashAndCompose

SpecHash == InitHash /\ [][NextHash]_vars

\* ------------------------------------------------------- named-pipe client
\* Most packets the client writes and most events the server writes.
MaxPackets == 2
MaxEvents == 2

\* SocketPacket: one EOT-terminated frame on the connection.
SocketPacket(ty, packet_requester, data) ==
    [ty |-> ty, requester |-> packet_requester, data |-> data]
\* The packets callers hand to send_packet and send_packet_without_response.
Requests == {SocketPacket("get_device", None, Some("serial"))}
\* The frame the server pushes for its n-th event.
EventFrame(n) == SocketPacket("event", None, Some(n))
\* The server's reply: the same ty, the requester echoed.
ResponseTo(packet) == SocketPacket(packet.ty, packet.requester, Some("result"))

\* The requester of a call: a random string of 20 alphanumeric characters.
\* It is taken to differ from every one drawn before; n tells them apart.
RequesterId(n) == <<"requester", n>>

send_packet_frame_NoRequester(packet, id) == packet

\* send_packet: packet.requester = Some(id.clone())
send_packet_frame(packet, id) == [packet EXCEPT !.requester = Some(id)]

handle_after_write_Released(t) == None

\* send_packet: the guard of get_handle() lives until send_packet returns.
handle_after_write(t) == Some(t)

\* One turn of the loop of util::read_response on the frame just read: an
\* event is pushed on the event buffer and skipped, the frame of the
\* requester is returned, any other frame is skipped.
read_response(frame, id, buffer) ==
    IF frame.ty = "event"
    THEN [returned |-> None,
          event_buffer |-> IF IsSome(frame.data) THEN Append(buffer, Unwrap(frame.data))
                           ELSE buffer]
    ELSE IF frame.requester = Some(id)
    THEN [returned |-> Some(frame), event_buffer |-> buffer]
    ELSE [returned |-> None, event_buffer |-> buffer]

buffer_pop_KeepsEvent(buffer) ==
    IF buffer = <<>> THEN [event |-> None, buffer |-> buffer]
    ELSE [event |-> Some(buffer[Len(buffer)]), buffer |-> buffer]

\* get_event: buffer.pop(), which takes the last element of the Vec.
buffer_pop(buffer) ==
    IF buffer = <<>> THEN [event |-> None, buffer |-> buffer]
    ELSE [event |-> Some(buffer[Len(buffer)]), buffer |-> SubSeq(buffer, 1, Len(buffer) - 1)]

\* A thread calls send_packet: it is on its way to get_handle().
SendPacketCall(t) ==
    /\ client_pc[t] = "idle"
    /\ packets_sent + Cardinality({u \in Threads : client_pc[u] \in {"send_lock", "send_write"}})
           < MaxPackets
    /\ client_pc' = [client_pc EXCEPT ![t] = "send_lock"]
    /\ UNCHANGED <<connection, buffer_lock, inbound, outbound, event_buffer, requester,
                   response, delivered, packets_sent, events_written>>
    /\ UNCHANGED <<core_vars, hash_vars, render_vars, task_vars>>

\* send_packet up to get_handle(): the thread takes the connection write
\* lock. The requester it drew on the way is set here: nothing reads it
\* before the frame is written.
SendPacketLock(t) ==
    /\ client_pc[t] = "send_lock"
    /\ connection = None
    /\ connection' = Some(t)
    /\ requester' = [requester EXCEPT ![t] = Some(RequesterId(packets_sent))]
    /\ response' = [response EXCEPT ![t] = None]
    /\ client_pc' = [client_pc EXCEPT ![t] = "send_write"]
    /\ UNCHANGED <<buffer_lock, inbound, outbound, event_buffer, delivered, packets_sent,
                   events_written>>
    /\ UNCHANGED <<core_vars, hash_vars, render_vars, task_vars>>

\* send_packet: write!(handle, "{}\u{0004}", packet), then the arguments of
\* read_response, which take the event buffer's write lock.
SendPacketWrite(t) ==
    /\ client_pc[t] = "send_write"
    /\ buffer_lock = None
    /\ \E packet \in Requests :
          outbound' = Append(outbound, send_packet_frame(packet, Unwrap(requester[t])))
    /\ packets_sent' = packets_sent + 1
    /\ connection' = handle_after_write(t)
    /\ buffer_lock' = Some(t)
    /\ client_pc' = [client_pc EXCEPT ![t] = "send_read"]
    /\ UNCHANGED <<inbound, event_buffer, requester, response, delivered, events_written>>
    /\ UNCHANGED <<core_vars, hash_vars, render_vars, task_vars>>

\* send_packet in read_response: the next frame is read; with the response
\* the call returns and both locks are released.
SendPacketRead(t) ==
    /\ client_pc[t] = "send_read"
    /\ inbound # <<>>
    /\ inbound' = Tail(inbound)
    /\ LET turn == read_response(Head(inbound), Unwrap(requester[t]), event_buffer)
       IN /\ event_buffer' = turn.event_buffer
          /\ IF IsSome(turn.returned)
             THEN /\ response' = [response EXCEPT ![t] = turn.returned]
                  /\ client_pc' = [client_pc EXCEPT ![t] = "idle"]
                  /\ connection' = None
                  /\ buffer_lock' = None
             ELSE UNCHANGED <<response, client_pc, connection, buffer_lock>>
    /\ UNCHANGED <<outbound, requester, delivered, packets_sent, events_written>>
    /\ UNCHANGED <<core_vars, hash_vars, render_vars, task_vars>>

\* send_packet_without_response: the packet is written as it is, under the
\* connection write lock, and nothing is read.
SendPacketWithoutResponse(t) ==
    /\ client_pc[t] = "idle"
    /\ packets_sent + Cardinality({u \in Threads : client_pc[u] \in {"send_lock", "send_write"}})
           < MaxPackets
    /\ connection = None
    /\ \E packet \in Requests : outbound' = Append(outbound, packet)
    /\ packets_sent' = packets_sent + 1
    /\ UNCHANGED <<connection, buffer_lock, inbound, event_buffer, client_pc, requester,
                   response, delivered, events_written>>
    /\ UNCHANGED <<core_vars, hash_vars, render_vars, task_vars>>

buffer_after_miss_Kept(t) == Some(t)

\* get_event: drop(buffer) before the loop that reads the connection.
buffer_after_miss(t) == None

\* get_event: under the event buffer's write lock, pop an event and return
\* it, which drops the guard, or find none, drop the guard and go on to read
\* the connection.
GetEventInspect(t) ==
    /\ client_pc[t] = "idle"
    /\ buffer_lock = None
    /\ LET popped == buffer_pop(event_buffer)
       IN /\ event_buffer' = popped.buffer
          /\ IF IsSome(popped.event)
             THEN /\ delivered' = Append(delivered, Unwrap(popped.event))
                  /\ UNCHANGED <<client_pc, buffer_lock>>
             ELSE /\ client_pc' = [client_pc EXCEPT ![t] = "get_lock"]
                  /\ buffer_lock' = buffer_after_miss(t)
                  /\ UNCHANGED delivered
    /\ UNCHANGED <<connection, inbound, outbound, requester, response,
                   packets_sent, events_written>>
    /\ UNCHANGED <<core_vars, hash_vars, render_vars, task_vars>>

\* get_event: self.get_handle() of one turn of its loop.
GetEventLock(t) ==
    /\ client_pc[t] = "get_lock"
    /\ connection = None
    /\ connection' = Some(t)
    /\ client_pc' = [client_pc EXCEPT ![t] = "get_read"]
    /\ UNCHANGED <<buffer_lock, inbound, outbound, event_buffer, requester, response,
                   delivered, packets_sent, events_written>>
    /\ UNCHANGED <<core_vars, hash_vars, render_vars, task_vars>>

\* get_event: read_socket under the lock, which the end of the statement
\* releases; an event with data is returned, any other frame is dropped.
GetEventRead(t) ==
    /\ client_pc[t] = "get_read"
    /\ inbound # <<>>
    /\ inbound' = Tail(inbound)
    /\ connection' = None
    /\ IF Head(inbound).ty = "event" /\ IsSome(Head(inbound).data)
       THEN /\ delivered' = Append(delivered, Unwrap(Head(inbound).data))
            /\ client_pc' = [client_pc EXCEPT ![t] = "idle"]
       ELSE /\ client_pc' = [client_pc EXCEPT ![t] = "get_lock"]
            /\ UNCHANGED delivered
    /\ UNCHANGED <<buffer_lock, outbound, event_buffer, requester, response,
                   packets_sent, events_written>>
    /\ UNCHANGED <<core_vars, hash_vars, render_vars, task_vars>>

\* The server answers the oldest frame it has not read.
ServerRespond ==
    /\ outbound # <<>>
    /\ outbound' = Tail(outbound)
    /\ inbound' = Append(inbound, ResponseTo(Head(outbound)))
    /\ UNCHANGED <<connection, buffer_lock, event_buffer, client_pc, requester, response,
                   delivered, packets_sent, events_written>>
    /\ UNCHANGED <<core_vars, hash_vars, render_vars, task_vars>>

\* The server pushes its next event.
ServerEvent ==
    /\ events_written < MaxEvents
    /\ events_written' = events_written + 1
    /\ inbound' = Append(inbound, EventFrame(events_written + 1))
    /\ UNCHANGED <<connection, buffer_lock, outbound, event_buffer, client_pc, requester,
                   response, delivered, packets_sent>>
    /\ UNCHANGED <<core_vars, hash_vars, render_vars, task_vars>>



NextClient ==
    \/ \E t \in Threads :
          \/ SendPacketCall(t)
          \/ SendPacketLock(t) \/ SendPacketWrite(t) \/ SendPacketRead(t)
          \/ SendPacketWithoutResponse(t)
          \/ GetEventInspect(t) \/ GetEventLock(t) \/ GetEventRead(t)
    \/ ServerRespond
    \/ ServerEvent

SpecClient == Init /\ [][NextClient]_vars

\* Threads are scheduled and the server answers: a thread inside a call takes
\* the step it can take, a thread that asks for the connection gets it if it
\* is free again and again, and the server reads every frame written to it.
\* Nothing obliges a thread to call, nor the server to send an event.
SpecClientFair ==
    /\ SpecClient
    /\ \A t \in Threads :
          /\ SF_vars(SendPacketLock(t)) /\ SF_vars(GetEventLock(t))
          /\ WF_vars(SendPacketWrite(t)) /\ WF_vars(SendPacketRead(t))
          /\ WF_vars(GetEventRead(t))
    /\ WF_vars(ServerRespond)

\* ------------------------------------------------------- editing renderers
\* The renderer components a button is given by edits: a solid background,
\* no text or one text of either scale and offset, cached or not.
EditedRenderers ==
    {r \in HashedRenderers :
        /\ r.background = Solid(White)
        /\ \A i \in 1..Len(r.text) : r.text[i].text = "a" /\ ~IsSome(r.text[i].shadow)}

\* The screen whose key 0 holds a button with the renderer component.
ScreenWith(renderer) ==
    Some([k \in 0..(key_count - 1) |->
            IF k = 0 THEN Some(RenderButton(Some(renderer))) ELSE None])

\* spawn_rendering_thread for a screen with one rendered button.
InitEdit ==
    /\ InitCore
    /\ InitHashIdle
    /\ InitClient
    /\ InitTasks
    /\ \E renderer \in EditedRenderers : current_screen = ScreenWith(renderer)
    /\ files = Paths
    /\ render_cache = <<>>
    /\ image_cache = <<>>
    /\ rx = RendererHandle_redraw(<<>>)
    /\ tx_dropped = FALSE
    /\ is_closed = FALSE
    /\ worker_pc = "top"
    /\ sent = <<>>

\* set_component_value on the renderer component of the button at key 0:
\* the button has the new component, and the device is marked for redraw.
EditRenderer ==
    /\ Len(rx) < MaxMarks
    /\ \E renderer \in EditedRenderers : current_screen' = ScreenWith(renderer)
    /\ rx' = RendererHandle_redraw(rx)
    /\ UNCHANGED <<core_vars, hash_vars, client_vars, task_vars, files, render_cache, image_cache,
                   tx_dropped, is_closed, worker_pc, sent>>

NextEdit == EditRenderer \/ WorkerLoopTop \/ WorkerRecv

SpecEdit == InitEdit /\ [][NextEdit]_vars

\* Two tasks, each calling one operation on the initialised device.
SpecTasks == Init /\ [][NextTasks]_vars

\* ------------------------------------------------------- device arguments
\* The device with its button maps followed over every key index up to and
\* including key_count, the first index the device does not have.
InitDevice ==
    /\ InitCoreOver(0..key_count)
    /\ InitHashIdle
    /\ InitRenderIdle
    /\ InitClient
    /\ InitTasks

\* The operations that take a key index or a brightness from the caller.
NextDevice == SetButton \/ ClearButton \/ PasteButton \/ SetBrightness

SpecDevice == InitDevice /\ [][NextDevice]_vars

\* -------------------------------------------------------- committing layouts
\* The stack operations, set_button on the panel they leave on top, and
\* commit_changes.
NextCommit ==
    \/ PushScreen \/ PopScreen \/ ReplaceScreen \/ ResetStack
    \/ SetButton \/ CommitChanges

SpecCommit == Init /\ [][NextCommit]_vars

\* ------------------------------------------------------------------ claims
Top(s) == s[Len(s)]
EventsOf(l) == {l.events[i].event : i \in 1..Len(l.events)}

\* C1: once the device is initialised with its root panel, the panel stack
\* holds at least one panel in every reachable state.
C1_StackNeverEmpty == Len(panel_stack) >= 1

\* C2: pop_screen on a stack of exactly one panel is a no-op: the stack is
\* unchanged and no PanelPopped event is sent.
C2_PopOfSinglePanelIsNoOp ==
    (last.op = "pop_screen" /\ Len(last.pre_stack) = 1)
        => /\ panel_stack = last.pre_stack
           /\ \A e \in EventsOf(last) : e.ty # "PanelPopped"

\* C3: push_screen(p) immediately followed by pop_screen() leaves the stack as
\* it was before the push, and the PanelPopped event carries the panel p that
\* the PanelPushed event carried.
C3_PushThenPop ==
    [][(last.op = "push_screen" /\ last'.op = "pop_screen")
         => /\ panel_stack' = last.pre_stack
            /\ Len(last.events) = 1 /\ Len(last'.events) = 1
            /\ last.events[1].event = PanelPushed(last.args[1])
            /\ last'.events[1].event = PanelPopped(last.args[1])]_vars

C3_Witness ==
    /\ last.op = "pop_screen"
    /\ last.pre_stack = <<"root", "menu">>
    /\ panel_stack = <<"root">>
    /\ last.events[1].event = PanelPopped("menu")

\* C4: of an event sent through send_core_event_to_modules by a handle whose
\* module_name is M, module M receives no copy and every other module of the
\* supplied list receives exactly one, with a handle that carries the
\* receiving module's name and declared features; nothing else is delivered.
C4_OriginatorReceivesNoCopy ==
    \A i \in 1..Len(last.events) :
        LET e == last.events[i]
            copies(m) == {k \in 1..Len(e.spawned) : e.spawned[k].module = m}
        IN /\ \A j \in 1..Len(e.modules) :
                 LET m == e.modules[j]
                 IN IF m = last.handle.module_name
                    THEN copies(m) = {}
                    ELSE /\ Cardinality(copies(m)) = 1
                         /\ \A k \in copies(m) :
                              /\ e.spawned[k].task_event = e.event
                              /\ e.spawned[k].task_core.module_name = m
                              /\ e.spawned[k].task_core.module_features = used_features(m)
           /\ \A k \in 1..Len(e.spawned) :
                 \E j \in 1..Len(e.modules) : e.modules[j] = e.spawned[k].module

C4_Witness ==
    /\ last.handle.module_name = "m1"
    /\ Len(last.events) = 1
    /\ last.events[1].modules = <<"m1", "m2">>
    /\ Len(last.events[1].spawned) = 1
    /\ last.events[1].spawned[1].module = "m2"

\* C5: set_button(key, b) on a non-empty stack emits exactly one event,
\* ButtonUpdated with the slot's previous button as old and b as new when the
\* slot of the current panel was occupied and ButtonAdded with b when it was
\* empty; afterwards get_button(key) returns b, and the call returns true.
C5_SetButtonEvent ==
    [][(last'.op = "set_button" /\ Len(panel_stack) > 0)
         => LET key == last'.args[1]
                b == last'.args[2]
                panel == Top(panel_stack)
                previous == panels[panel][key]
                after == [current_stack |-> panel_stack', panels |-> panels',
                          device_config |-> device_config', redraw_tx |-> <<>>]
            IN /\ last'.ret = TRUE
               /\ Len(last'.events) = 1
               /\ last'.events[1].event =
                     IF IsSome(previous)
                     THEN ButtonUpdated(key, panel, b, Unwrap(previous))
                     ELSE ButtonAdded(key, panel, b)
               /\ get_button(wrap, key, after).ret = Some(b)]_vars

C5_Witness ==
    /\ last.op = "set_button"
    /\ last.ret = TRUE
    /\ last.events[1].event.ty = "ButtonUpdated"
    /\ last.events[1].event.old_button # last.events[1].event.button

\* The operations that change the panel shown or the stack.
RedrawingOps ==
    {"set_button", "clear_button", "add_component", "remove_component",
     "set_component_value", "paste_button", "push_screen", "pop_screen",
     "replace_screen", "reset_stack", "load_panels_from_value"}

Succeeded(l) ==
    CASE l.op \in {"set_button", "clear_button", "add_component", "remove_component",
                   "set_component_value", "paste_button"} -> l.ret = TRUE
      [] l.op = "load_panels_from_value" -> l.ret = "Ok"
      [] OTHER -> ~l.panicked

\* C6: every operation that changes the current panel or the stack, or reports
\* success in doing so, has asked for a redraw by the time it returns.
C6_MutationMarksForRedraw ==
    [][(/\ last'.op \in RedrawingOps
        /\ (Succeeded(last') \/ panel_stack' # panel_stack \/ panels' # panels))
         => Len(last'.redraws) >= 1]_vars

C6_Witness ==
    /\ last.op = "remove_component"
    /\ last.ret = TRUE
    /\ last.redraws = <<"Redraw">>

\* The operations that change the buttons of the current panel.
PanelMutators ==
    {"set_button", "clear_button", "add_component", "remove_component",
     "set_component_value"}

\* C7 as stated: after a successful mutating operation on the current panel
\* the device's dirty_state flag is set.
C7_DirtyAfterMutation ==
    (last.op \in PanelMutators /\ last.ret = TRUE) => device_config.dirty_state = TRUE

\* C7 amended: the mutating operations on the current panel leave the device
\* config (dirty_state included) as it was; dirty_state is set whenever
\* commit_changes returns.
C7_DirtyOnCommitOnly ==
    [][/\ (last'.op \in PanelMutators => device_config' = device_config)
       /\ ((last'.op = "commit_changes" /\ ~last'.panicked)
             => device_config'.dirty_state = TRUE)]_vars

C7_Witness ==
    /\ last.op = "commit_changes"
    /\ ~last.panicked
    /\ device_config.dirty_state = TRUE
    /\ DOMAIN device_config.layout # {}

\* Feature lists a module may declare, and the modules holding the handles.
FeatureLists == {<<>>, << PLUGIN_API >>, << CORE, MODULE_MANAGER >>, SUPPORTED_FEATURES}
HandleNames == {"-system-", "m1"}

Outcome(r) ==
    [core |-> r.core, ret |-> r.ret, events |-> r.events, commands |-> r.commands,
     panicked |-> r.panicked]

\* The handles of one module that differ only in their declared features.
HandlesNamed(name) ==
    {[module_name |-> name, module_features |-> f] : f \in FeatureLists}

OneOutcome(outcomes) == \A x, y \in outcomes : x = y

\* C8: the feature gate is advisory. From every reachable state, each
\* operation run through two handles that differ only in their declared
\* feature list leaves the same state, returns the same value, emits the same
\* events and sends the same commands; only the log may differ.
C8_GateIsAdvisory ==
    \A name \in HandleNames :
        /\ OneOutcome({Outcome(core(h, Core)) : h \in HandlesNamed(name)})
        /\ OneOutcome({Outcome(config(h, Core)) : h \in HandlesNamed(name)})
        /\ OneOutcome({Outcome(module_manager(h, Core)) : h \in HandlesNamed(name)})
        /\ OneOutcome({Outcome(socket_manager(h, Core)) : h \in HandlesNamed(name)})
        /\ OneOutcome({Outcome(current_stack(h, Core)) : h \in HandlesNamed(name)})
        /\ OneOutcome({Outcome(get_stack(h, Core)) : h \in HandlesNamed(name)})
        /\ OneOutcome({Outcome(get_current_screen(h, Core)) : h \in HandlesNamed(name)})
        /\ OneOutcome({Outcome(pop_screen(h, Core)) : h \in HandlesNamed(name)})
        /\ OneOutcome({Outcome(get_root_screen(h, Core)) : h \in HandlesNamed(name)})
        /\ OneOutcome({Outcome(save_panels_to_value(h, Core)) : h \in HandlesNamed(name)})
        /\ OneOutcome({Outcome(commit_changes(h, Core)) : h \in HandlesNamed(name)})
        /\ \A brightness \in Brightnesses :
              OneOutcome({Outcome(set_brightness(h, brightness, Core)) : h \in HandlesNamed(name)})
        /\ \A screen \in Panels :
              /\ OneOutcome({Outcome(push_screen(h, screen, Core)) : h \in HandlesNamed(name)})
              /\ OneOutcome({Outcome(replace_screen(h, screen, Core)) : h \in HandlesNamed(name)})
              /\ OneOutcome({Outcome(reset_stack(h, screen, Core)) : h \in HandlesNamed(name)})
              /\ \A value \in PanelValues :
                    OneOutcome({Outcome(load_panels_from_value(h, value, screen, Core)) : h \in HandlesNamed(name)})
        /\ \A key \in Keys :
              /\ OneOutcome({Outcome(get_button(h, key, Core)) : h \in HandlesNamed(name)})
              /\ OneOutcome({Outcome(clear_button(h, key, Core)) : h \in HandlesNamed(name)})
              /\ OneOutcome({Outcome(button_down(h, key, Core)) : h \in HandlesNamed(name)})
              /\ OneOutcome({Outcome(button_up(h, key, Core)) : h \in HandlesNamed(name)})
              /\ OneOutcome({Outcome(button_action(h, key, Core)) : h \in HandlesNamed(name)})
              /\ \A button \in ButtonValues :
                    OneOutcome({Outcome(set_button(h, key, button, Core)) : h \in HandlesNamed(name)})
              /\ \A reference \in RawButtons :
                    OneOutcome({Outcome(paste_button(h, key, reference, Core)) : h \in HandlesNamed(name)})
              /\ \A component_name \in ComponentNames :
                    /\ OneOutcome({Outcome(add_component(h, key, component_name, Core)) : h \in HandlesNamed(name)})
                    /\ OneOutcome({Outcome(remove_component(h, key, component_name, Core)) : h \in HandlesNamed(name)})
                    /\ \A value \in Values :
                          OneOutcome({Outcome(set_component_value(h, key, component_name, value, Core)) : h \in HandlesNamed(name)})

\* A call through the handle of a module that declared none of the features
\* it used was warned about and changed the panel all the same.
C8_Witness ==
    /\ last.handle = clone_for(wrap, "m1")
    /\ last.op = "add_component"
    /\ last.ret = TRUE
    /\ Len(last.log) > 0

\* The operations whose first step is the gate for core_methods.
CoreMethodsOps ==
    {"get_stack", "get_current_screen", "get_button", "set_button", "clear_button",
     "add_component", "set_component_value", "remove_component", "push_screen",
     "pop_screen", "get_root_screen", "save_panels_to_value", "reset_stack",
     "load_panels_from_value", "button_down", "button_up", "button_action",
     "replace_screen", "set_brightness", "commit_changes"}

C10_SystemHandleNeverWarns ==
    /\ wrap.module_name = "-system-"
    /\ \A f \in RequiredFeatures :
          check_for_feature(wrap, f) /\ required_feature(wrap, f) = <<>>
    /\ (last.handle.module_name = "-system-" => last.log = <<>>)

C10_Witness ==
    /\ last.handle = wrap
    /\ last.op = "clear_button"
    /\ last.ret = TRUE
    /\ last.log = <<>>

\* C11: cache soundness. Two renderer components with the same hash_renderer
\* are composed to the same image.
C11_CacheSoundness ==
    IsSome(hash_out)
        => (Unwrap(hash_out).hashes[1] = Unwrap(hash_out).hashes[2]
               => Unwrap(hash_out).images[1] = Unwrap(hash_out).images[2])

\* The images a command batch shows for the missing texture.
ShowsMissing(command) ==
    IsSome(command.image) /\ Unwrap(command.image).background = missing.background

\* C12: no entry of image_cache or of render_cache was produced from a failed
\* image load: no cached image is built on the missing texture, and the
\* renderer of a key that was just sent the missing texture has no entry in
\* render_cache, whatever its disable_caching and to_cache.
C12_MissingIsNeverCached ==
    /\ \A k \in DOMAIN image_cache : image_cache[k].background # missing.background
    /\ \A k \in DOMAIN render_cache : render_cache[k].background # missing.background
    /\ \A b \in 1..Len(sent) : \A n \in 1..Len(sent[b]) :
          ShowsMissing(sent[b][n])
              => LET button == Unwrap(Unwrap(current_screen)[sent[b][n].key])
                 IN hash_renderer(Unwrap(button.renderer)) \notin DOMAIN render_cache

\* A pass sent the missing texture for a renderer that asks for both caches.
C12_Witness ==
    /\ sent # <<>>
    /\ \E n \in 1..Len(sent[1]) :
          /\ ShowsMissing(sent[1][n])
          /\ LET renderer ==
                     Unwrap(Unwrap(Unwrap(current_screen)[sent[1][n].key]).renderer)
             IN renderer.to_cache /\ ~renderer.background.disable_caching

\* A step of the worker that runs a render pass.
RenderPass == worker_pc = "recv" /\ worker_pc' = "top"

\* The key has nothing to draw: no panel, no button, or no renderer component
\* that parses.
NothingToDraw(i) ==
    \/ ~IsSome(current_screen)
    \/ ~IsSome(Unwrap(current_screen)[i])
    \/ ~IsSome(Unwrap(Unwrap(current_screen)[i]).renderer)

\* C13: each render pass makes exactly one send_commands call, with key_count
\* commands, the i-th for key i: ClearButtonImage(i) when the key has nothing
\* to draw and SetButtonImage(i, image) otherwise.
C13_OneBatchPerPass ==
    [][RenderPass =>
          /\ Len(sent') = 1
          /\ Len(sent'[1]) = key_count
          /\ \A i \in 0..(key_count - 1) :
                /\ sent'[1][i + 1].key = i
                /\ IF NothingToDraw(i)
                   THEN sent'[1][i + 1] = ClearButtonImage(i)
                   ELSE /\ sent'[1][i + 1].command = "SetButtonImage"
                        /\ IsSome(sent'[1][i + 1].image)]_vars

C13_Witness ==
    /\ Len(sent) = 1
    /\ sent[1][1].command = "SetButtonImage"
    /\ sent[1][2].command = "ClearButtonImage"

\* C14: marks are edge-triggered. Once a pass has been made, the next pass
\* answers every Redraw that was sent before it began: none is left waiting
\* to cause a further pass.
C14_MarksCoalesce ==
    [][(RenderPass /\ sent # <<>>) => rx' = <<>>]_vars

\* C15: once the daemon has set is_closed, the render worker eventually
\* leaves its loop.
C15_WorkerTerminates == is_closed ~> (worker_pc = "done")

\* The events among the frames of a sequence, in order.
EventsIn(frames) ==
    LET events == SelectSeq(frames, LAMBDA f : f.ty = "event")
    IN [i \in 1..Len(events) |-> Unwrap(events[i].data)]
\* How often x occurs in a sequence.
Occurrences(seq, x) == Cardinality({i \in 1..Len(seq) : seq[i] = x})

\* C16: send_packet writes one frame, carrying the requester it drew, and
\* returns the first frame it reads that carries this requester; an event
\* frame read before it goes to the event buffer and is not returned, and a
\* frame of another requester is not returned.
C16_ResponseCorrelation ==
    [][\A t \in Threads :
          /\ (client_pc[t] = "send_write" /\ client_pc'[t] = "send_read")
                => /\ IsSome(requester[t])
                   /\ Len(outbound') = Len(outbound) + 1
                   /\ outbound'[Len(outbound')].requester = requester[t]
          /\ (client_pc[t] = "send_read" /\ Len(inbound') < Len(inbound))
                => LET frame == Head(inbound)
                   IN IF frame.ty # "event" /\ frame.requester = requester[t]
                      THEN /\ response'[t] = Some(frame)
                           /\ client_pc'[t] = "idle"
                           /\ event_buffer' = event_buffer
                      ELSE /\ response'[t] = None
                           /\ client_pc'[t] = "send_read"
                           /\ event_buffer' = IF frame.ty = "event"
                                              THEN Append(event_buffer, Unwrap(frame.data))
                                              ELSE event_buffer
          /\ IsSome(response'[t])
                => /\ Unwrap(response'[t]).requester = requester'[t]
                   /\ Unwrap(response'[t]).ty # "event"]_vars

\* The second packet written was a request, and its call returned the
\* response after an event had been read and stashed.
C16_Witness ==
    \E t \in Threads :
        /\ IsSome(response[t])
        /\ event_buffer # <<>>
        /\ Unwrap(requester[t]) = RequesterId(1)
        /\ outbound = <<>>
        /\ inbound = <<>>

\* C17: the events get_event calls return are in the order the server wrote
\* them.
C17_EventsInOrder ==
    \A i, j \in 1..Len(delivered) : i < j => delivered[i] < delivered[j]

\* C18: no event is lost or returned twice: every event the server has
\* written is, exactly once, on the connection, in the event buffer or among
\* the events returned; an event leaves the buffer only by being returned
\* from a get_event call that does not read the connection; and get_event
\* reads the connection only when it found the buffer empty.
C18_StashedEventsDelivered ==
    [][/\ \A e \in 1..events_written' :
             Occurrences(EventsIn(inbound'), e) + Occurrences(event_buffer', e)
                 + Occurrences(delivered', e) = 1
       /\ Len(event_buffer') < Len(event_buffer)
             => /\ delivered' = Append(delivered, event_buffer[Len(event_buffer)])
                /\ event_buffer' = SubSeq(event_buffer, 1, Len(event_buffer) - 1)
                /\ inbound' = inbound
                /\ client_pc' = client_pc
       /\ \A t \in Threads :
             (client_pc[t] = "idle" /\ client_pc'[t] = "get_lock")
                 => event_buffer = <<>>]_vars

\* get_event has returned an event that was stashed during a request while
\* another stashed event is still waiting.
C18_Witness ==
    /\ Len(delivered) = 1
    /\ Len(event_buffer) = 1
    /\ \E t \in Threads : IsSome(response[t])

\* C19: a request holds the connection write lock from before its frame is
\* written until its response is read: meanwhile no frame is written by
\* another thread and no other thread reads the connection.
C19_RequestHoldsConnection ==
    [][\A t \in Threads :
          /\ client_pc'[t] \in {"send_write", "send_read"} => connection' = Some(t)
          /\ client_pc[t] = "send_read"
                => /\ Len(outbound') <= Len(outbound)
                   /\ Len(inbound') < Len(inbound)
                         => /\ delivered' = delivered
                            /\ \A u \in Threads \ {t} : client_pc'[u] = client_pc[u]]_vars

\* A request waits for its response while another thread waits in get_event
\* for the connection and a frame is there to be read.
C19_Witness ==
    \E t, u \in Threads :
        /\ client_pc[t] = "send_read"
        /\ connection = Some(t)
        /\ client_pc[u] = "get_lock"
        /\ inbound # <<>>

\* The modules that own a component of the plain button.
Owners(reference) ==
    {component_map[n] : n \in (DOMAIN reference) \cap (DOMAIN component_map)}

\* C20: paste_button invokes paste_component once on each module that owns a
\* component of the reference and on no other module, installs the button
\* built from an empty one through set_button, and exactly one ButtonAdded or
\* ButtonUpdated event results.
C20_PasteButton ==
    last.op = "paste_button"
        => /\ \A m \in ModuleNames :
                 Occurrences(last.invoked, m) = IF m \in Owners(last.args[2]) THEN 1 ELSE 0
           /\ Len(last.events) = 1
           /\ last.events[1].event.ty \in {"ButtonAdded", "ButtonUpdated"}
           /\ last.events[1].event.button
                  = Some(make_button_unique(
                             paste_components(last.invoked, last.args[2], Button_new)))

\* C21: every key index that holds a button in a panel on the stack is less
\* than key_count; set_button and paste_button with a key index of key_count
\* or more add no button there.
C21_KeysWithinDevice ==
    \A i \in 1..Len(panel_stack) : \A k \in DOMAIN panels[panel_stack[i]] :
        IsSome(panels[panel_stack[i]][k]) => k < key_count

\* C22: the stored brightness is within 0..100; set_brightness above 100
\* sends no SetBrightness command and leaves the stored brightness alone.
C22_BrightnessWithinRange ==
    /\ device_config.brightness \in 0..100
    /\ (last.op = "set_brightness" /\ last.args[1] > 100) => last.commands = <<>>

\* The button at key on the current panel, if there is one.
ButtonAt(key) == IF panel_stack = <<>> THEN None ELSE panels[Top(panel_stack)][key]

\* C23: add_component(key, c) on a button that already has component c, on a
\* key without a button, or with a c that is not registered returns false,
\* invokes no module callback, leaves every button unchanged, emits no event
\* and does not mark for redraw.
C23_AddComponentFails ==
    [][(/\ last'.op = "add_component"
        /\ \/ ~IsSome(ButtonAt(last'.args[1]))
           \/ last'.args[2] \in component_names(Unwrap(ButtonAt(last'.args[1])))
           \/ last'.args[2] \notin DOMAIN component_map)
         => /\ last'.ret = FALSE
            /\ last'.invoked = <<>>
            /\ panels' = panels
            /\ last'.events = <<>>
            /\ last'.redraws = <<>>]_vars

C23_Witness ==
    /\ last.op = "add_component"
    /\ last.args = <<0, "c1">>
    /\ last.ret = FALSE
    /\ last.invoked = <<>>
    /\ IsSome(ButtonAt(0))
    /\ "c1" \in component_names(Unwrap(ButtonAt(0)))

\* The modules that own a component of the button, and the modules an event
\* was handed to.
OwnersOf(button) ==
    {m \in ModuleNames :
        \E n \in component_names(button) : n \in DOMAIN component_map /\ component_map[n] = m}
Receivers(e) == {e.spawned[k].module : k \in 1..Len(e.spawned)}
\* What button_action is to emit for the button at its key; the key events
\* change neither the stack nor a panel, so the button is the one they found.
ActionEmitted(l, events) ==
    IF IsSome(ButtonAt(l.args[1]))
    THEN /\ Len(events) = 1
         /\ events[1].event =
               ButtonAction(l.args[1], Top(panel_stack), Unwrap(ButtonAt(l.args[1])))
         /\ Receivers(events[1]) =
               OwnersOf(Unwrap(ButtonAt(l.args[1]))) \ {l.handle.module_name}
         /\ l.redraws = <<"Redraw">>
    ELSE events = <<>> /\ l.redraws = <<>>

\* C29: button_action(key) sends ButtonAction to the modules that own a
\* component of the button at key on the current panel, the originator
\* excepted, and marks for redraw; with an empty stack or an empty slot it
\* sends nothing and marks nothing. button_up(key) hands ButtonUp to every
\* module and then does what button_action(key) does; button_down(key) hands
\* out ButtonDown and nothing else.
C29_KeyEvents ==
    /\ last.op = "button_action" => ActionEmitted(last, last.events)
    /\ last.op = "button_up"
         => /\ Len(last.events) >= 1
            /\ last.events[1].event = ButtonUp(last.args[1])
            /\ Receivers(last.events[1]) = ModuleNames \ {last.handle.module_name}
            /\ ActionEmitted(last, Tail(last.events))
    /\ last.op = "button_down"
         => /\ Len(last.events) = 1
            /\ last.events[1].event = ButtonDown(last.args[1])
            /\ Receivers(last.events[1]) = ModuleNames \ {last.handle.module_name}
            /\ last.redraws = <<>>

C29_Witness ==
    /\ last.op = "button_up"
    /\ last.handle.module_name = "-system-"
    /\ Len(last.events) = 2
    /\ Receivers(last.events[1]) = {"m1", "m2"}
    /\ last.events[2].event.ty = "ButtonAction"
    /\ Receivers(last.events[2]) = {"m1"}
    /\ last.redraws = <<"Redraw">>

\* The feature each operation is to be gated by.
RequiredFeatureOf(op) ==
    CASE op \in {"core", "config", "module_manager"} -> op
      [] op = "socket_manager" -> "socket_api"
      [] OTHER -> "core_methods"

\* C28: the first gate a public operation invokes is the gate for its own
\* required feature (core_methods for paste_button): through a handle that
\* has not declared that feature, the first warning the operation logs names
\* it.
C28_GateComesFirst ==
    (last.op # "init" /\ ~check_for_feature(last.handle, RequiredFeatureOf(last.op)))
        => /\ last.log # <<>>
           /\ Head(last.log) = <<last.handle.module_name, RequiredFeatureOf(last.op)>>

\* C30: the image a render pass sends for a key is the image a fresh
\* composition of the key's current renderer component gives, whether or not
\* the pass took it from render_cache.
C30_CacheNeverStale ==
    [][RenderPass =>
          \A i \in 0..(key_count - 1) :
              sent'[1][i + 1].command = "SetButtonImage"
                  => LET button == Unwrap(Unwrap(current_screen)[i])
                         fresh == compose(Unwrap(button.renderer), <<>>, files)
                     IN Unwrap(sent'[1][i + 1].image) = fresh.image]_vars

\* The element and path operations, and the operations of a task that has
\* returned.
ElementOps ==
    {"add_element_component_value", "remove_element_component_value",
     "set_component_value_by_path"}
Returned(t) == IsSome(task_op[t]) /\ task_pc[t] = <<>>
Did(t, what) == \E i \in 1..Len(task_log[t]) : task_log[t][i].what = what
\* The component value after the edit of operation o alone.
Applied(o, value) ==
    IF ~IsSome(value) THEN value
    ELSE LET function == CASE o.op = "add_element_component_value" -> "add_array"
                           [] o.op = "remove_element_component_value" -> "remove_array"
                           [] o.op = "set_component_value_by_path" -> "set_value"
             edited == change_from_path(o.path, Unwrap(value), function, o.arg)
         IN IF edited.success /\ edited.changes # <<>> THEN Some(edited.changes[1])
            ELSE value

\* C24: when two tasks have run element or path operations on the button's
\* component at the same time, the component value is what running the two
\* edits one after the other, in one order or the other, gives.
C24_EditsSerialized ==
    (/\ \A t \in Tasks : Returned(t) /\ Unwrap(task_op[t]).op \in ElementOps)
        => \E first, second \in Tasks :
              /\ first # second
              /\ button_value =
                    Applied(Unwrap(task_op[second]),
                            Applied(Unwrap(task_op[first]), Some(<<0>>)))

\* C25: an element or path operation whose path edit failed returns false
\* and has not gone on to set_component_value: no module callback that sets
\* the value, no event, no mark for redraw.
C25_FailedEditChangesNothing ==
    \A t \in Tasks :
        (/\ IsSome(task_op[t])
         /\ Unwrap(task_op[t]).op \in ElementOps
         /\ Did(t, "change_from_path")
         /\ ~task_local[t].success)
            => /\ ~Did(t, "set_component_value")
               /\ ~Did(t, "send_core_event_to_modules")
               /\ ~Did(t, "mark_for_redraw")
               /\ task_ret[t] \in {"none", "false"}
               /\ Returned(t) => task_ret[t] = "false"

C25_Witness ==
    \E t \in Tasks :
        /\ Returned(t)
        /\ Unwrap(task_op[t]) =
              [op |-> "remove_element_component_value", path |-> "arr", arg |-> <<1>>]
        /\ Did(t, "change_from_path")
        /\ ~task_local[t].success
        /\ task_ret[t] = "false"
        /\ button_value = Some(<<0>>)

\* The operations that change the stack, a panel or a button.
MutatingOps ==
    {"push_screen", "pop_screen", "replace_screen", "reset_stack", "load_panels_from_value",
     "set_button", "clear_button", "add_component", "set_component_value",
     "remove_component"}

\* C26: an operation that changes the stack, a panel or a button holds none
\* of the locks it changed them under when it calls send_core_event_to_modules
\* and when it calls mark_for_redraw.
C26_LocksReleasedBeforeEvents ==
    \A t \in Tasks :
        (IsSome(task_op[t]) /\ Unwrap(task_op[t]).op \in MutatingOps)
            => \A i \in 1..Len(task_log[t]) :
                  task_log[t][i].what \in {"send_core_event_to_modules", "mark_for_redraw"}
                      => task_log[t][i].held = {}

\* The global lock order: device config, stack, panel, button, component map.
Rank(l) ==
    CASE l = "device_config" -> 1
      [] l = "stack" -> 2
      [] l = "panel" -> 3
      [] l = "button" -> 4
      [] l = "component_map" -> 5
\* The task can take its next step.
CanStep(t) ==
    /\ task_pc[t] # <<>>
    /\ Head(task_pc[t]).do = "lock" => CanLock(Head(task_pc[t]).lock, Head(task_pc[t]).mode)

\* C27: an operation requests a lock only while every lock it holds is
\* earlier in the global order, and concurrently running operations do not
\* deadlock: while a task has steps left, some task can take a step, and a
\* task that has returned holds no lock.
C27_LockOrder ==
    /\ \A t \in Tasks : \A i \in 1..Len(task_log[t]) :
          task_log[t][i].what = "lock"
              => \A l \in task_log[t][i].held : Rank(l) < Rank(task_log[t][i].lock)
    /\ (\E t \in Tasks : task_pc[t] # <<>>) => \E t \in Tasks : CanStep(t)
    /\ \A t \in Tasks : Returned(t) => Held(t) = {}

\* A task waits for a lock the other task holds.
C27_Witness ==
    \E t, u \in Tasks :
        /\ task_pc[t] # <<>>
        /\ ~CanStep(t)
        /\ Held(t) = {"panel"}
        /\ Head(task_pc[t]).lock = "button"
        /\ Held(u) = {"device_config", "panel", "button"}

\* The renderer component of the button at key i, and the image the latest
\* pass sent for it.
RendererAt(i) == Unwrap(Unwrap(Unwrap(current_screen)[i]).renderer)
Recomposed(i) == compose(RendererAt(i), image_cache', files)

\* C31: in a render pass a renderer with to_cache = false is composed anew
\* and adds no entry to render_cache; an image that is not composed anew is
\* the render_cache entry of a renderer with to_cache = true; an entry is
\* added only for a renderer with to_cache = true whose composition did not
\* substitute the missing texture. An Image background with disable_caching
\* = true is loaded from its file whatever image_cache holds, and adds no
\* entry to image_cache.
C31_CachesOnlyWhenAsked ==
    [][RenderPass =>
          /\ \A h \in DOMAIN render_cache' :
                \/ h \in DOMAIN render_cache /\ render_cache'[h] = render_cache[h]
                \/ \E i \in 0..(key_count - 1) :
                      /\ ~NothingToDraw(i)
                      /\ hash_renderer(RendererAt(i)) = h
                      /\ RendererAt(i).to_cache
                      /\ ~Recomposed(i).no_image
          /\ \A k \in DOMAIN image_cache' :
                \/ k \in DOMAIN image_cache /\ image_cache'[k] = image_cache[k]
                \/ \E i \in 0..(key_count - 1) :
                      /\ ~NothingToDraw(i)
                      /\ RendererAt(i).background.kind = "Image"
                      /\ ~RendererAt(i).background.disable_caching
                      /\ hash_path(RendererAt(i).background.path) = k
          /\ \A i \in 0..(key_count - 1) :
                ~NothingToDraw(i) =>
                    LET renderer == RendererAt(i)
                        renderer_hash == hash_renderer(renderer)
                        image == Unwrap(sent'[1][i + 1].image)
                    IN /\ ~renderer.to_cache
                            => /\ image = Recomposed(i).image
                               /\ renderer_hash \notin DOMAIN render_cache'
                       /\ image # Recomposed(i).image
                            => /\ renderer.to_cache
                               /\ renderer_hash \in DOMAIN render_cache
                               /\ image = render_cache[renderer_hash]
                       /\ (/\ renderer.background.kind = "Image"
                           /\ renderer.background.disable_caching
                           /\ renderer_hash \notin DOMAIN render_cache)
                            => image.background =
                                  IF renderer.background.path \in files
                                  THEN <<"file", renderer.background.path>>
                                  ELSE missing.background]_vars

\* A pass after the file has gone: the key that uses image_cache is sent the
\* cached image, the key that bypasses it the missing texture, and neither
\* renderer, to_cache being false, has an entry in render_cache.
C31_Witness ==
    /\ IsSome(current_screen)
    /\ Unwrap(current_screen)[0] =
          Some(RenderButton(Some(RendererComponent(Image("a.png", FALSE), <<>>, FALSE))))
    /\ Unwrap(current_screen)[1] =
          Some(RenderButton(Some(RendererComponent(Image("a.png", TRUE), <<>>, FALSE))))
    /\ files = {}
    /\ hash_path("a.png") \in DOMAIN image_cache
    /\ render_cache = <<>>
    /\ Len(sent) = 1
    /\ Unwrap(sent[1][1].image).background = <<"file", "a.png">>
    /\ ShowsMissing(sent[1][2])

\* C32: in every reachable state a call of save_panels_to_value returns the
\* empty object exactly when the stack is empty and the serialized root panel
\* (stack index 0) otherwise; it changes neither the stack nor a panel nor
\* the device config, emits no event and asks for no redraw.
C32_SaveSerializesRoot ==
    \A h \in Handles :
        LET saved == save_panels_to_value(h, Core)
        IN /\ (saved.ret = None) <=> (panel_stack = <<>>)
           /\ panel_stack # <<>> => saved.ret = Some(panel_to_raw(panels[panel_stack[1]]))
           /\ saved.core = Core
           /\ saved.events = <<>>
           /\ saved.commands = <<>>
           /\ ~saved.panicked

\* The root panel was saved from under a panel with other buttons.
C32_Witness ==
    /\ last.op = "save_panels_to_value"
    /\ panel_stack = <<"root", "menu">>
    /\ panel_to_raw(panels["root"]) # panel_to_raw(panels["menu"])
    /\ last.ret = Some(panel_to_raw(panels["root"]))

\* C33: in every reachable state clear_button(key) on an occupied slot of the
\* current panel returns true, removes that button and no other, emits
\* exactly one event, ButtonDeleted with the removed button, and marks for
\* redraw; on an empty slot or an empty stack it returns false, changes
\* nothing, emits no event and does not mark for redraw.
C33_ClearButton ==
    \A h \in Handles, key \in KeyArgs :
        LET cleared == clear_button(h, key, Core)
        IN IF IsSome(ButtonAt(key))
           THEN /\ cleared.ret = TRUE
                /\ cleared.core.panels = [panels EXCEPT ![Top(panel_stack)][key] = None]
                /\ cleared.core.current_stack = panel_stack
                /\ cleared.core.device_config = device_config
                /\ Len(cleared.events) = 1
                /\ cleared.events[1].event =
                      ButtonDeleted(key, Top(panel_stack), Unwrap(ButtonAt(key)))
                /\ cleared.core.redraw_tx = <<"Redraw">>
           ELSE /\ cleared.ret = FALSE
                /\ cleared.core = Core
                /\ cleared.events = <<>>

\* A button with a component was cleared from the panel above the root.
C33_Witness ==
    /\ last.op = "clear_button"
    /\ last.ret = TRUE
    /\ panel_stack = <<"root", "menu">>
    /\ Len(last.events) = 1
    /\ last.events[1].event.ty = "ButtonDeleted"
    /\ last.events[1].event.panel = Some("menu")
    /\ ~IsSome(panels["menu"][last.args[1]])
    /\ IsSome(panels["root"][last.args[1]])
    /\ last.redraws = <<"Redraw">>

\* C34: in every state the stack operations reach, commit_changes completes
\* without failure, stores as layout the raw form of the root panel (stack
\* index 0), sets dirty_state and commit_time, and changes neither the stack
\* nor a panel nor the brightness.
C34_CommitStoresRoot ==
    \A h \in Handles :
        LET committed == commit_changes(h, Core)
        IN /\ ~committed.panicked
           /\ committed.core.device_config.layout = panel_to_raw(panels[panel_stack[1]])
           /\ committed.core.device_config.dirty_state = TRUE
           /\ IsSome(committed.core.device_config.commit_time)
           /\ committed.core.device_config.brightness = device_config.brightness
           /\ committed.core.current_stack = panel_stack
           /\ committed.core.panels = panels

ReaderOps == {"get_stack", "get_current_screen", "get_button"}
TimesDone(t, what) == Cardinality({i \in 1..Len(task_log[t]) : task_log[t][i].what = what})

\* C36: while one task runs reset_stack and the other a reader (get_stack,
\* get_current_screen or get_button), the stack is empty only while the
\* resetting task holds the stack lock, and the reader never sees an empty
\* stack; once reset_stack has returned the stack holds one panel and one
\* event has been sent. As a whole call, reset_stack(p) leaves the stack [p]
\* and emits exactly StackReset(p).
C36_ResetIsAtomic ==
    /\ \A t, u \in Tasks :
          (/\ t # u
           /\ IsSome(task_op[t]) /\ Unwrap(task_op[t]).op = "reset_stack"
           /\ IsSome(task_op[u]) => Unwrap(task_op[u]).op \in ReaderOps)
              => /\ stack_depth = 0 => locks["stack"].writer = Some(t)
                 /\ task_local[u].seen # Some(0)
                 /\ Did(u, "stack.last") => task_local[u].screen
                 /\ Returned(u) => task_ret[u] # "None"
                 /\ Returned(t) => /\ stack_depth = 1
                                   /\ TimesDone(t, "send_core_event_to_modules") = 1
    /\ \A h \in Handles, panel \in Panels :
          LET reset == reset_stack(h, panel, Core)
          IN /\ reset.core.current_stack = <<panel>>
             /\ Len(reset.events) = 1
             /\ reset.events[1].event = StackReset(panel)

\* A reader waits for the stack lock while reset_stack is between its clear
\* and its push.
C36_Witness ==
    \E t, u \in Tasks :
        /\ IsSome(task_op[t]) /\ Unwrap(task_op[t]).op = "reset_stack"
        /\ stack_depth = 0
        /\ locks["stack"].writer = Some(t)
        /\ IsSome(task_op[u]) /\ Unwrap(task_op[u]).op = "get_current_screen"
        /\ task_pc[u] # <<>>
        /\ Head(task_pc[u]) = Lock("stack", "write")
        /\ ~CanStep(u)

\* C37: in every reachable state replace_screen(p) on a non-empty stack
\* leaves the stack as long as it was, with every entry below the top (the
\* root of a longer stack included) as it was and p on top, and emits exactly
\* one event, PanelReplaced with the former top as old and p as new; on an
\* empty stack the result is [p] and the event carries no old panel. No
\* panel's buttons change.
C37_ReplaceScreen ==
    \A h \in Handles, screen \in Panels :
        LET replaced == replace_screen(h, screen, Core)
            after == replaced.core.current_stack
        IN /\ IF panel_stack # <<>>
              THEN /\ Len(after) = Len(panel_stack)
                   /\ \A i \in 1..(Len(panel_stack) - 1) : after[i] = panel_stack[i]
                   /\ Top(after) = screen
                   /\ Len(replaced.events) = 1
                   /\ replaced.events[1].event =
                         PanelReplaced(Some(Top(panel_stack)), screen)
              ELSE /\ after = <<screen>>
                   /\ Len(replaced.events) = 1
                   /\ replaced.events[1].event = PanelReplaced(None, screen)
           /\ replaced.core.panels = panels
           /\ replaced.core.device_config = device_config

\* The top of a two-panel stack was replaced by another panel.
C37_Witness ==
    /\ last.op = "replace_screen"
    /\ Len(last.pre_stack) = 2
    /\ Len(panel_stack) = 2
    /\ panel_stack[1] = last.pre_stack[1]
    /\ panel_stack[2] = last.args[1]
    /\ last.pre_stack[2] # last.args[1]
    /\ Len(last.events) = 1
    /\ last.events[1].event = PanelReplaced(Some(last.pre_stack[2]), last.args[1])

\* Thread t waits for a lock that thread u holds: in send_packet for the
\* event buffer, in get_event for the connection.
WaitsFor(t, u) ==
    \/ client_pc[t] = "send_write" /\ buffer_lock = Some(u)
    \/ client_pc[t] = "get_lock" /\ connection = Some(u)

\* C38: the two client locks never deadlock. A thread holds the event buffer
\* while it holds, or waits for, the connection only in a request, which took
\* the connection first; a thread in get_event has released the event buffer
\* before it asks for the connection; and there is no set of threads each of
\* which waits for a lock held by a thread of the set.
C38_NoLockCycle ==
    /\ \A t \in Threads :
          /\ buffer_lock = Some(t) => connection = Some(t)
          /\ client_pc[t] \in {"get_lock", "get_read"} => buffer_lock # Some(t)
    /\ \A waiting \in (SUBSET Threads) \ {{}} :
          \E t \in waiting : \A u \in waiting : ~WaitsFor(t, u)

\* A thread in get_event waits for the connection, which a thread in a
\* request holds together with the event buffer.
C38_Witness ==
    \E t, u \in Threads :
        /\ client_pc[t] = "send_read"
        /\ connection = Some(t)
        /\ buffer_lock = Some(t)
        /\ client_pc[u] = "get_lock"
        /\ WaitsFor(u, t)

\* C39: a request a thread has started eventually returns with its response,
\* whatever the other thread does.
C39_RequestReturns ==
    \A t \in Threads :
        (client_pc[t] = "send_lock") ~> (client_pc[t] = "idle" /\ IsSome(response[t]))

\* The callbacks of add_component, set_component_value and remove_component.
ComponentEdits == {"add_component", "set_component_value", "remove_component"}
\* The task's next step applies one of these edits to the button.
AboutToEdit(t) ==
    /\ task_pc[t] # <<>>
    /\ Head(task_pc[t]).do = "callback"
    /\ Head(task_pc[t]).name \in ComponentEdits

\* C40: the old_button of the ButtonUpdated event of add_component,
\* set_component_value and remove_component is the button as the operation
\* found it under the button's write lock, the state its edit is applied to,
\* also when another task edits the button; and once taken, the copy is
\* changed by no edit of the button.
C40_OldButtonIsStateEdited ==
    [][\A t \in Tasks :
          /\ AboutToEdit(t) => task_local[t].previous = button_value
          /\ Did(t, "button_to_raw")
                => task_local'[t].previous = task_local[t].previous]_vars

====
